---- MODULE Spec2Model ----
(***************************************************************************)
(* MarkBridge: Confluence page -> Markdown.                                *)
(*                                                                         *)
(* These parts of extension/content-scripts/confluence.js are modelled:    *)
(*   - the table pipeline: normalizeTable (expandMergedCells,              *)
(*     promoteHeaderCells, ensureThead, ensureHeaderRow, cleanCellContent) *)
(*     and the table rules of the renderer (addTableRules, isHeadingRow);  *)
(*   - the image embedder: extractPage, embedImagesAsBase64,               *)
(*     fetchAndEmbedImage, fetchImageAsDataUri, imageToDataUriViaCanvas;   *)
(*   - the extraction of a page: findContentElement, extractPage on a      *)
(*     clone of the content element, the reply and handleConvert;          *)
(*   - the passes of preprocessContent over one element (code blocks,      *)
(*     panels, task lists, images) and its rendering;                      *)
(*   - postProcess over the rendered text;                                 *)
(*   - cleanCellContent over the child nodes of one cell;                  *)
(*   - the message listener of the content script and the popup's ping     *)
(*     and extract requests (ensureContentScript, sendMessageToTab).       *)
(* Of extension/lib/analytics.js: the track functions over the store.      *)
(***************************************************************************)
EXTENDS Integers, Sequences, FiniteSets, TLC

\* ------------------------------------------------------------------------
\* Bounds of the model
\* ------------------------------------------------------------------------
MaxRows == 2
MaxCols == 2
MaxCells == 4
MaxSpan == 2
NumImages == 5
MaxElements == 2
MaxItems == 2
MaxPieces == 4
MaxKids == 2
MaxCalls == 2
MaxDays == 2
MaxMessages == 3
MaxInjections == 2

\* ------------------------------------------------------------------------
\* State
\* ------------------------------------------------------------------------
VARIABLES
  src,      \* the table as it stands in the page (never changed)
  table,    \* the table of the clone, mutated in place by normalizeTable
  prev,     \* the table as it was before the last run of normalizeTable
  md,       \* the lines the table rule returned for the table
  tpc,      \* "source" | "normalized" | "renormalized" | "rendered"
  \* -- image embedding (one 'extract' request) --
  epc,          \* "idle" | "embedding" | "responded"
  imgs0,        \* the src of the images of the clone before embedding
  imgs,         \* the images of the clone, in document order
  task,         \* per image: where its fetchAndEmbedImage call stands
  loopI,        \* the loop variable i of embedImagesAsBase64 (first image of the batch)
  fetchTimer,   \* per image: the abort timer of fetchImageAsDataUri is armed
  canvasTimer,  \* per image: the timer of imageToDataUriViaCanvas is armed
  fetches,      \* per image: number of fetch() calls made
  canvases,     \* per image: number of canvas attempts made
  response,     \* what sendResponse was called with (NoResponse before)
  \* -- extraction of a page (popup and content script) --
  page,             \* the live document as it was loaded: per selector, the element it matches
  heap,             \* the DOM nodes that exist: id -> node
  contentEl,        \* the element findContentElement returned (NoElement: none)
  clone,            \* the root of the clone extractPage works on (NoElement: none)
  message,          \* the message the popup sent to the tab
  reply,            \* what the listener passed to sendResponse
  statusLine,       \* the status line of the popup
  markdownContent,  \* the Markdown the popup holds
  xpc,              \* "idle" | "requested" | "embedding" | "replied" | "done"
  \* -- preprocessContent over one element, and its rendering --
  el,       \* the element as it stands in the page
  pel,      \* the element preprocessContent left in the clone
  out,      \* the lines td.turndown returned for it
  mpc,      \* "source" | "preprocessed" | "rendered" | "passed" | "repeated"
  pass,     \* the one pass of preprocessContent that was applied alone ("none": none)
  again,    \* the element after the same pass was applied to pel
  \* -- postProcess --
  raw,        \* the text td.turndown returned
  processed,  \* the text after the transforms
  order,      \* the order in which the transforms were applied
  ppc,        \* "raw" | "processed"
  \* -- cleanCellContent over the nodes of one cell --
  cellSrc,  \* the cell as it stands in the table: its size attributes and its child nodes
  cellOut,  \* the cell cleanCellContent left
  cpc,      \* "source" | "cleaned"
  \* -- the analytics store --
  store0,   \* the data load() yields before the first call
  store,    \* the value under the storage key (Null: nothing stored)
  calls,    \* the calls of the track functions made so far: kind, step and the data they hold
  queue,    \* the get and set requests chrome.storage.local has not served yet
  day,      \* today()
  \* -- the message listener of a page --
  loaded,      \* window.__markBridgeLoaded
  listeners,   \* the number of listeners added to chrome.runtime.onMessage
  injections,  \* the number of times the content script was run in the page
  msgs         \* the messages sent to the tab: action, pending handlers, calls of sendResponse

tableVars == <<src, table, prev, md, tpc>>
embedVars == <<epc, imgs0, imgs, task, loopI, fetchTimer, canvasTimer, fetches, canvases, response>>
extractVars == <<page, heap, contentEl, clone, message, reply, statusLine, markdownContent, xpc>>
macroVars == <<el, pel, out, mpc, pass, again>>
postVars == <<raw, processed, order, ppc>>
cellVars == <<cellSrc, cellOut, cpc>>
statsVars == <<store0, store, calls, queue, day>>
listenerVars == <<loaded, listeners, injections, msgs>>
vars == <<src, table, prev, md, tpc,
          epc, imgs0, imgs, task, loopI, fetchTimer, canvasTimer, fetches, canvases, response,
          page, heap, contentEl, clone, message, reply, statusLine, markdownContent, xpc,
          el, pel, out, mpc, pass, again,
          raw, processed, order, ppc,
          cellSrc, cellOut, cpc,
          store0, store, calls, queue, day,
          loaded, listeners, injections, msgs>>

\* ------------------------------------------------------------------------
\* Generic helpers
\* ------------------------------------------------------------------------
RECURSIVE SumSeq(_)
SumSeq(s) == IF s = <<>> THEN 0 ELSE Head(s) + SumSeq(Tail(s))

RECURSIVE Flatten(_)
Flatten(ss) == IF ss = <<>> THEN <<>> ELSE Head(ss) \o Flatten(Tail(ss))

MaxOf(S) == IF S = {} THEN 0 ELSE CHOOSE m \in S : \A x \in S : x <= m

SeqsUpTo(S, n) == UNION { [1..k -> S] : k \in 0..n }

\* ------------------------------------------------------------------------
\* DOM of a table
\*   a table is the sequence of its element children (sections); a row that
\*   is a direct child of the table is a section of kind "TR" with one row.
\*   a cell: tag, colspan/rowspan attribute (0 = attribute absent), trimmed
\*   text content, the header marker it carries, whether it holds
\*   img/pre/code/table, whether it has width/height, its align attribute,
\*   and the source cell it is (id, 0 for a cell the pipeline created).
\* ------------------------------------------------------------------------
NoMarker == "none"
NewCell(tag, text) ==
  [tag |-> tag, colspan |-> 0, rowspan |-> 0, text |-> text, marker |-> NoMarker,
   media |-> FALSE, sized |-> FALSE, align |-> "", id |-> 0]

\* HTMLTableElement.rows: the rows of the thead sections first, then the
\* rows of the bodies and the rows directly under the table, in tree order.
SectionsOf(t, kinds) == SelectSeq(t, LAMBDA s : s.kind \in kinds)

RowsOfSections(ss) == Flatten([i \in 1..Len(ss) |-> ss[i].rows])

TableRows(t) ==
  RowsOfSections(SectionsOf(t, {"THEAD"})) \o RowsOfSections(SectionsOf(t, {"TBODY", "TR"}))

\* index in table.rows of row k of section s
RowIndex(t, s, k) ==
  LET sameGroup(a) == (t[a].kind = "THEAD") = (t[s].kind = "THEAD")
      before == SumSeq([a \in 1..Len(t) |-> IF a < s /\ sameGroup(a) THEN Len(t[a].rows) ELSE 0])
      heads == SumSeq([a \in 1..Len(t) |-> IF t[a].kind = "THEAD" THEN Len(t[a].rows) ELSE 0])
  IN  (IF t[s].kind = "THEAD" THEN 0 ELSE heads) + before + k

\* the table with the rows of table.rows replaced, each in its place
WithRows(t, rows) ==
  [s \in 1..Len(t) |->
     [t[s] EXCEPT !.rows = [k \in 1..Len(t[s].rows) |-> rows[RowIndex(t, s, k)]]]]

\* the section that holds table.rows[1]
FirstRowSection(t) ==
  CHOOSE s \in 1..Len(t) : Len(t[s].rows) > 0 /\ RowIndex(t, s, 1) = 1

HasSection(t, kind) == \E s \in 1..Len(t) : t[s].kind = kind

FirstSection(t, kind) == CHOOSE s \in 1..Len(t) : t[s].kind = kind /\ \A a \in 1..(s - 1) : t[a].kind # kind

\* ------------------------------------------------------------------------
\* expandMergedCells
\* ------------------------------------------------------------------------
\* parseInt(cell.getAttribute('colspan'), 10) || 1
ParseSpan(a) == IF a = 0 THEN 1 ELSE a

\* variant: the cells of a row are counted, their colspans ignored
getMaxColumnsByCellCount(t) ==
  LET rows == TableRows(t)
  IN  MaxOf({ Len(rows[r]) : r \in 1..Len(rows) })

getMaxColumns(t) ==
  LET rows == TableRows(t)
  IN  MaxOf({ SumSeq([j \in 1..Len(rows[r]) |-> ParseSpan(rows[r][j].colspan)]) : r \in 1..Len(rows) })

\* while (cellIdx < maxCols && grid[r][cellIdx] !== null) cellIdx++
RECURSIVE NextFree(_, _, _)
NextFree(gridRow, cellIdx, maxCols) ==
  IF cellIdx <= maxCols /\ gridRow[cellIdx].filled
  THEN NextFree(gridRow, cellIdx + 1, maxCols)
  ELSE cellIdx

\* the inner loop over the cells of row r, from cell j on
RECURSIVE PlaceCells(_, _, _, _, _, _)
PlaceCells(grid, rows, maxCols, r, j, cellIdx) ==
  \* cell.removeAttribute('colspan'); cell.removeAttribute('rowspan')
  LET StripSpans(c) == [c EXCEPT !.colspan = 0, !.rowspan = 0]
  IN
  IF j > Len(rows[r]) THEN grid
  ELSE
    LET free == NextFree(grid[r], cellIdx, maxCols) IN
    IF free > maxCols THEN grid
    ELSE
      LET cell == rows[r][j]
          colspan == ParseSpan(cell.colspan)
          rowspan == ParseSpan(cell.rowspan)
          marked ==
            [gr \in 1..Len(rows) |->
               [gc \in 1..maxCols |->
                  IF gr \in r..(r + rowspan - 1) /\ gc \in free..(free + colspan - 1)
                  THEN [filled |-> TRUE, originRow |-> r, originCol |-> free,
                        isOrigin |-> (gr = r /\ gc = free), cell |-> StripSpans(cell)]
                  ELSE grid[gr][gc]]]
      IN  PlaceCells(marked, rows, maxCols, r, j + 1, free + colspan)

\* the outer loop over the rows, from row r on
RECURSIVE BuildGrid(_, _, _, _)
BuildGrid(grid, rows, maxCols, r) ==
  IF r > Len(rows) THEN grid
  ELSE BuildGrid(PlaceCells(grid, rows, maxCols, r, 1, 1), rows, maxCols, r + 1)

\* variant: every cell that is not an origin is a new td
RebuildCellAllTd(info) ==
  IF info.filled /\ info.isOrigin THEN info.cell ELSE NewCell("TD", "")

RebuildCell(info) ==
  \* info.cell.cloneNode(false); dup.textContent = ''
  LET DupCell(c) ==
        LET AttrMarkers == {"confluenceTh", "highlight", "data-highlight-colour", "background-color"}
        IN
        [c EXCEPT !.text = "", !.media = FALSE, !.id = 0,
                  !.marker = IF c.marker \in AttrMarkers THEN c.marker ELSE NoMarker]
  IN
  IF info.filled /\ info.isOrigin THEN info.cell
  ELSE IF info.filled THEN DupCell(info.cell)
  ELSE NewCell("TD", "")

expandMergedCells(t) ==
  LET NullInfo == [filled |-> FALSE, originRow |-> 0, originCol |-> 0, isOrigin |-> FALSE, cell |-> NewCell("TD", "")]
      rows == TableRows(t)
      maxCols == getMaxColumns(t)
      empty == [r \in 1..Len(rows) |-> [c \in 1..maxCols |-> NullInfo]]
      grid == BuildGrid(empty, rows, maxCols, 1)
  IN  IF Len(rows) = 0 THEN t
      ELSE WithRows(t, [r \in 1..Len(rows) |-> [c \in 1..maxCols |-> RebuildCell(grid[r][c])]])

\* ------------------------------------------------------------------------
\* promoteHeaderCells
\* ------------------------------------------------------------------------
promoteHeaderCells(t) ==
  LET isHeaderCell(td) == td.tag = "TH" \/ td.marker # NoMarker
  IN
  \* document.createElement('th') with the td's innerHTML and attributes
  LET Retag(c) == [c EXCEPT !.tag = "TH"]
  IN
  LET rows == TableRows(t)
      allHeaders == Len(rows[1]) > 0 /\ \A j \in 1..Len(rows[1]) : isHeaderCell(rows[1][j])
      promoted ==
        [r \in 1..Len(rows) |->
           [j \in 1..Len(rows[r]) |->
              IF r = 1
              THEN IF allHeaders THEN Retag(rows[r][j]) ELSE rows[r][j]
              ELSE IF rows[r][j].tag = "TD" /\ rows[r][j].marker = "confluenceTh"
                   THEN Retag(rows[r][j]) ELSE rows[r][j]]]
  IN  IF Len(rows) = 0 THEN t ELSE WithRows(t, promoted)

\* ------------------------------------------------------------------------
\* ensureThead
\* ------------------------------------------------------------------------
\* the table with the first row of table.rows taken out of its parent
DetachFirstRow(t) ==
  LET s == FirstRowSection(t) IN
  IF t[s].kind = "TR"
  THEN SubSeq(t, 1, s - 1) \o SubSeq(t, s + 1, Len(t))
  ELSE [t EXCEPT ![s].rows = Tail(t[s].rows)]

\* table.querySelector('thead'), created and inserted first when missing
WithThead(t) == IF HasSection(t, "THEAD") THEN t ELSE <<[kind |-> "THEAD", rows |-> <<>>]>> \o t

AppendToThead(t, row) ==
  LET s == FirstSection(t, "THEAD") IN [t EXCEPT ![s].rows = Append(t[s].rows, row)]

\* a missing tbody is created, takes every row directly under the table and
\* is appended to the table
WithTbody(t) ==
  IF HasSection(t, "TBODY") THEN t
  ELSE SectionsOf(t, {"THEAD", "TBODY"})
         \o <<[kind |-> "TBODY", rows |-> RowsOfSections(SectionsOf(t, {"TR"}))]>>

ensureThead(t) ==
  LET rows == TableRows(t) IN
  IF Len(rows) = 0 THEN t
  ELSE IF t[FirstRowSection(t)].kind = "THEAD" THEN t
  ELSE IF ~(\A j \in 1..Len(rows[1]) : rows[1][j].tag = "TH") THEN t
  ELSE WithTbody(AppendToThead(WithThead(DetachFirstRow(t)), rows[1]))

\* ------------------------------------------------------------------------
\* ensureHeaderRow
\* ------------------------------------------------------------------------
LabelMaxLen == 50

ensureHeaderRow(t) ==
  LET looksLikeHeader(c) == Len(c.text) > 0 /\ Len(c.text) < LabelMaxLen /\ ~c.media
  IN
  LET ColumnLabel(i) == "Column " \o ToString(i)
      rows == TableRows(t) IN
  IF Len(rows) = 0 THEN t
  ELSE IF \E j \in 1..Len(rows[1]) : rows[1][j].tag = "TH" THEN t
  ELSE IF Len(rows[1]) = 0 THEN t
  ELSE
    LET firstRow == rows[1]
        headerRow == [i \in 1..Len(firstRow) |->
                        NewCell("TH", IF looksLikeHeader(firstRow[i]) THEN firstRow[i].text
                                      ELSE ColumnLabel(i))]
        looksLikeHeaderRow == \A i \in 1..Len(firstRow) : looksLikeHeader(firstRow[i])
        \* thead.appendChild(headerRow), then firstRow.remove() when it was
        \* taken as the header
        kept == WithThead(IF looksLikeHeaderRow THEN DetachFirstRow(t) ELSE t)
    IN  AppendToThead(kept, headerRow)

\* ------------------------------------------------------------------------
\* cleanCellContent (the cell's own attributes; the text of the cells of
\* this model is already a single trimmed run)
\* ------------------------------------------------------------------------
cleanCell(c) == [c EXCEPT !.sized = FALSE]

cleanCellContent(t) ==
  [s \in 1..Len(t) |->
     [t[s] EXCEPT !.rows = [k \in 1..Len(t[s].rows) |->
                              [j \in 1..Len(t[s].rows[k]) |-> cleanCell(t[s].rows[k][j])]]]]

\* ------------------------------------------------------------------------
\* normalizeTable
\* ------------------------------------------------------------------------
normalizeTable(t) ==
  cleanCellContent(ensureHeaderRow(ensureThead(promoteHeaderCells(expandMergedCells(t)))))

\* ------------------------------------------------------------------------
\* The table rules of the renderer (addTableRules)
\*   a rendered line is the sequence of its tokens: "|", " ", the content
\*   of a cell, a separator marker.
\* ------------------------------------------------------------------------
\* content.replace(/\|/g, '\\|').trim() of the text of the cell: a pipe
\* becomes the escaped pipe "\\|"
CellContent(c) == <<IF c.text = "|" THEN "\\|" ELSE c.text>>

\* rule tableCell: only the cell at index 0 of its row opens the row
tableCell(c, index) ==
  (IF index = 1 THEN <<"|", " ">> ELSE <<" ">>) \o CellContent(c) \o <<" ", "|">>

SeparatorCell(border, idx) == (IF idx = 1 THEN <<"|", " ">> ELSE <<" ">>) \o <<border, " ", "|">>

isFirstTbody(t, s) ==
  \* element.textContent.trim() === '' of a section
  LET SectionTextEmpty(sec) ==
        \A k \in 1..Len(sec.rows) : \A j \in 1..Len(sec.rows[k]) : sec.rows[k][j].text = ""
  IN
  t[s].kind = "TBODY" /\ (s = 1 \/ (t[s - 1].kind = "THEAD" /\ SectionTextEmpty(t[s - 1])))

\* row k of section s
isHeadingRow(t, s, k) ==
  LET row == t[s].rows[k]
      isFirstChild == IF t[s].kind = "TR" THEN s = 1 ELSE k = 1
  IN  IF t[s].kind = "THEAD" THEN TRUE
      ELSE IF isFirstChild /\ (t[s].kind = "TR" \/ isFirstTbody(t, s))
           THEN Len(row) > 0 /\ \A j \in 1..Len(row) : row[j].tag = "TH"
           ELSE FALSE

\* rule tableRow: '\n' + content + separator, as the lines it adds
tableRow(t, s, k) ==
  LET Border(align) ==
        IF align = "left" THEN ":--"
        ELSE IF align = "right" THEN "--:"
        ELSE IF align = "center" THEN ":-:"
        ELSE "---"
      row == t[s].rows[k]
      content == Flatten([j \in 1..Len(row) |-> tableCell(row[j], j)])
      separator == Flatten([j \in 1..Len(row) |-> SeparatorCell(Border(row[j].align), j)])
  IN  IF isHeadingRow(t, s, k) THEN <<content, separator>> ELSE <<content>>

\* rule tableSection: pass-through
tableSection(t, s) == Flatten([k \in 1..Len(t[s].rows) |-> tableRow(t, s, k)])

\* /^\|[\s:|-]+\|$/.test(line.trim())
MatchesSeparator(l) ==
  LET SeparatorChars == {"", " ", "|", "---", ":--", "--:", ":-:"}
  IN
  /\ Len(l) >= 3
  /\ l[1] = "|" /\ l[Len(l)] = "|"
  /\ \A i \in 2..(Len(l) - 1) : l[i] \in SeparatorChars
  /\ \E i \in 2..(Len(l) - 1) : l[i] # ""

\* rule table: the lines of the table, joined by '\n' in the output
tableRule(t) ==
  \* '| ' + Array(colCount).fill('---').join(' | ') + ' |'
  LET SyntheticSeparator(colCount) == Flatten([i \in 1..colCount |-> SeparatorCell("---", i)])
  IN
  \* (line.match(/\|/g) || []).length
  LET PipeCount(l) == Cardinality({ i \in 1..Len(l) : l[i] \in {"|", "\\|"} })
      IsBlankLine(l) == \A i \in 1..Len(l) : l[i] \in {"", " "}
      content == Flatten([s \in 1..Len(t) |-> tableSection(t, s)])
      lines == SelectSeq(content, LAMBDA l : ~IsBlankLine(l))
      hasSeparator == \E i \in 1..Len(lines) : MatchesSeparator(lines[i])
      colCount == PipeCount(lines[1]) - 1
  IN  IF Len(lines) = 0 THEN <<>>
      ELSE IF ~hasSeparator /\ colCount > 0
           THEN <<lines[1], SyntheticSeparator(colCount)>> \o Tail(lines)
           ELSE lines

\* ------------------------------------------------------------------------
\* Tables of the pages: up to MaxRows rows of up to MaxCols cells, MaxCells
\* cells in all, spans up to MaxSpan
\* ------------------------------------------------------------------------
SourceRows ==
  LET SpanKinds ==
        UNION { { [NewCell("TD", "A") EXCEPT !.colspan = k],
                  [NewCell("TD", "A") EXCEPT !.rowspan = k],
                  [NewCell("TH", "A") EXCEPT !.rowspan = k] } : k \in 2..MaxSpan }
      PlainKinds ==
        { [NewCell("TD", "A") EXCEPT !.sized = TRUE],
          NewCell("TD", ""),
          NewCell("TD", "|"),
          NewCell("TH", "A"),
          [NewCell("TD", "A") EXCEPT !.marker = "confluenceTh"] }
      CellKinds == PlainKinds \cup SpanKinds
  IN  SeqsUpTo(CellKinds, MaxCols)

\* the first h rows in a thead, the others in a tbody or directly under
\* the table
Layout(rows, h, body) ==
  LET n == Len(rows)
      head == IF h = 0 THEN <<>> ELSE <<[kind |-> "THEAD", rows |-> SubSeq(rows, 1, h)]>>
      rest == SubSeq(rows, h + 1, n)
  IN  head \o (IF body = "TBODY"
               THEN (IF rest = <<>> THEN <<>> ELSE <<[kind |-> "TBODY", rows |-> rest]>>)
               ELSE [i \in 1..Len(rest) |-> [kind |-> "TR", rows |-> <<rest[i]>>]])

\* rows in a tbody, rows directly under the table, or the first h rows in a
\* thead and the others in a tbody
Layouts(n) == {<<0, "TBODY">>, <<0, "TR">>} \cup { <<h, "TBODY">> : h \in 1..n }

\* ------------------------------------------------------------------------
\* Image embedding
\*   a src is [scheme, body, enc]: scheme "none" (no src), "about"
\*   (about:blank), "http" (a URL), "data" (a data URI); body names the
\*   resource; enc tells how a data URI was produced.
\* ------------------------------------------------------------------------
CONCURRENCY == 4

Src(scheme, body, enc) == [scheme |-> scheme, body |-> body, enc |-> enc]

NoSrc == Src("none", 0, "")

NoResponse == [sent |-> FALSE, success |-> FALSE, html |-> <<>>]

\* reader.result of blobToDataUri / canvas.toDataURL of the image at url
DataUri(url, enc) == Src("data", url.body, enc)

\* fetchAndEmbedImage returns at once: a data URI, no src, about:blank
SkipsEmbedding(s) == s.scheme = "data" \/ s.scheme \in {"none", "about"}

Settled(st) == st \in {"skipped", "embedded", "kept", "failed"}

\* variant: images.slice(i), every remaining image in one batch
BatchWithoutLimit(i) == { k \in 1..Len(imgs) : i <= k }

\* images.slice(i, i + CONCURRENCY)
Batch(i) == { k \in 1..Len(imgs) : i <= k /\ k < i + CONCURRENCY }

\* the state in which no request has been received
EmbedIdle ==
  /\ epc = "idle"
  /\ imgs0 = <<>>
  /\ imgs = <<>>
  /\ task = <<>>
  /\ loopI = 1
  /\ fetchTimer = <<>>
  /\ canvasTimer = <<>>
  /\ fetches = <<>>
  /\ canvases = <<>>
  /\ response = NoResponse

\* batch.map((img) => fetchAndEmbedImage(img, TIMEOUT_MS)): every call runs
\* up to its first await: the early returns, setTimeout and fetch()
StartBatch(i) ==
  /\ loopI' = i
  /\ task' = [k \in 1..Len(imgs) |->
                IF k \in Batch(i)
                THEN (IF SkipsEmbedding(imgs[k].src) THEN "skipped" ELSE "fetching")
                ELSE task[k]]
  /\ fetchTimer' = [k \in 1..Len(imgs) |->
                      IF k \in Batch(i) /\ ~SkipsEmbedding(imgs[k].src) THEN TRUE ELSE fetchTimer[k]]
  /\ fetches' = [k \in 1..Len(imgs) |->
                   IF k \in Batch(i) /\ ~SkipsEmbedding(imgs[k].src) THEN fetches[k] + 1 ELSE fetches[k]]

\* sendResponse({ success: true, data }) with html: clone.innerHTML
RespondSuccess ==
  /\ response' = [sent |-> TRUE, success |-> TRUE, html |-> [k \in 1..Len(imgs) |-> imgs[k].src]]
  /\ epc' = "responded"

\* the 'extract' message: extractPage up to its first suspension
ExtractRequest(embedImages, contentFound) ==
  /\ epc = "idle"
  /\ IF ~contentFound
     THEN /\ response' = [sent |-> TRUE, success |-> FALSE, html |-> <<>>]
          /\ epc' = "responded"
          /\ UNCHANGED <<task, loopI, fetchTimer, fetches>>
     ELSE IF embedImages /\ Len(imgs) > 0
     THEN /\ StartBatch(1)
          /\ epc' = "embedding"
          /\ UNCHANGED response
     ELSE /\ RespondSuccess
          /\ UNCHANGED <<task, loopI, fetchTimer, fetches>>
  /\ UNCHANGED <<imgs0, imgs, canvasTimer, canvases>>
  /\ UNCHANGED <<tableVars, extractVars, macroVars, postVars, cellVars, statsVars, listenerVars>>

\* await Promise.allSettled(...) resumes: next batch, or return and respond
BatchSettled ==
  /\ epc = "embedding"
  /\ \A k \in Batch(loopI) : Settled(task[k])
  /\ IF loopI + CONCURRENCY <= Len(imgs)
     THEN /\ StartBatch(loopI + CONCURRENCY)
          /\ UNCHANGED <<epc, response>>
     ELSE /\ RespondSuccess
          /\ UNCHANGED <<task, loopI, fetchTimer, fetches>>
  /\ UNCHANGED <<imgs0, imgs, canvasTimer, canvases>>
  /\ UNCHANGED <<tableVars, extractVars, macroVars, postVars, cellVars, statsVars, listenerVars>>

\* catch (fetchErr): imageToDataUriViaCanvas(url, timeoutMs) is started
StartCanvas(k) ==
  /\ task' = [task EXCEPT ![k] = "canvas"]
  /\ canvasTimer' = [canvasTimer EXCEPT ![k] = TRUE]
  /\ canvases' = [canvases EXCEPT ![k] = @ + 1]

\* what fetchImageAsDataUri gave: a data URI, null, or an exception
Uri(dataUri) == [kind |-> "uri", uri |-> dataUri]
Null == [kind |-> "null", uri |-> NoSrc]
Threw == [kind |-> "threw", uri |-> NoSrc]

\* variant: the src is set to whatever came back, a missing data URI too
SrcAfterEmbedUnguarded(s, result) == result.uri

\* try { if (dataUri) img.setAttribute('src', dataUri) } catch (_) { }:
\* the src of the image once its fetchAndEmbedImage call is over
SrcAfterEmbed(s, result) == IF result.kind = "uri" THEN result.uri ELSE s

\* variant: results are written in the order of completion, to the first
\* image of the batch that has not settled
WriteSrcInCompletionOrder(k, s) ==
  LET first == CHOOSE j \in Batch(loopI) : ~Settled(task[j]) /\ \A i \in Batch(loopI) : ~Settled(task[i]) => j <= i
  IN  [imgs EXCEPT ![first].src = s]

\* the img of the call is the element that is written
WriteSrc(k, s) == [imgs EXCEPT ![k].src = s]

\* variant: a failure rejects the whole batch, the calls still in flight
\* are abandoned
SettleTaskFailFast(k, status) ==
  LET InFlight(st) == st \in {"fetching", "reading", "encoding", "canvas"}
  IN
  [j \in 1..Len(task) |->
     IF j = k THEN status
     ELSE IF status = "failed" /\ InFlight(task[j]) THEN "failed"
     ELSE task[j]]

\* the promise of call k settles; no other call is touched
SettleTask(k, status) == [task EXCEPT ![k] = status]

\* fetchAndEmbedImage of image k is over
Finish(k, result, status) ==
  /\ imgs' = WriteSrc(k, SrcAfterEmbed(imgs[k].src, result))
  /\ task' = SettleTask(k, status)

\* fetch() resolves: clearTimeout(timer); response.ok decides
FetchResponse(k, ok) ==
  /\ task[k] = "fetching"
  /\ fetchTimer' = [fetchTimer EXCEPT ![k] = FALSE]
  /\ IF ok
     THEN /\ task' = [task EXCEPT ![k] = "reading"]
          /\ UNCHANGED <<canvasTimer, canvases>>
     ELSE StartCanvas(k)
  /\ UNCHANGED <<epc, imgs0, imgs, loopI, fetches, response>>
  /\ UNCHANGED <<tableVars, extractVars, macroVars, postVars, cellVars, statsVars, listenerVars>>

\* fetch() rejects (network, CORS): the abort timer is left armed
FetchError(k) ==
  /\ task[k] = "fetching"
  /\ StartCanvas(k)
  /\ UNCHANGED <<epc, imgs0, imgs, loopI, fetchTimer, fetches, response>>
  /\ UNCHANGED <<tableVars, extractVars, macroVars, postVars, cellVars, statsVars, listenerVars>>

\* the abort timer fires: controller.abort() rejects a pending fetch and
\* does nothing to one that has resolved or rejected
FetchTimeout(k) ==
  /\ k \in 1..Len(imgs)
  /\ fetchTimer[k]
  /\ fetchTimer' = [fetchTimer EXCEPT ![k] = FALSE]
  /\ IF task[k] = "fetching"
     THEN StartCanvas(k)
     ELSE UNCHANGED <<task, canvasTimer, canvases>>
  /\ UNCHANGED <<epc, imgs0, imgs, loopI, fetches, response>>
  /\ UNCHANGED <<tableVars, extractVars, macroVars, postVars, cellVars, statsVars, listenerVars>>

\* response.blob() resolves: type and size are checked
BlobRead(k, kind) ==
  /\ task[k] = "reading"
  /\ IF kind = "image"
     THEN /\ task' = [task EXCEPT ![k] = "encoding"]
          /\ UNCHANGED <<imgs, canvasTimer, canvases>>
     ELSE IF kind = "toolarge"
     THEN /\ Finish(k, Null, "kept")
          /\ UNCHANGED <<canvasTimer, canvases>>
     ELSE /\ StartCanvas(k)
          /\ UNCHANGED imgs
  /\ UNCHANGED <<epc, imgs0, loopI, fetchTimer, fetches, response>>
  /\ UNCHANGED <<tableVars, extractVars, macroVars, postVars, cellVars, statsVars, listenerVars>>

\* response.blob() rejects (the body stream fails)
BlobError(k) ==
  /\ task[k] = "reading"
  /\ StartCanvas(k)
  /\ UNCHANGED <<epc, imgs0, imgs, loopI, fetchTimer, fetches, response>>
  /\ UNCHANGED <<tableVars, extractVars, macroVars, postVars, cellVars, statsVars, listenerVars>>

\* blobToDataUri: reader.onload, or reader.onerror
EncodeDone(k, ok) ==
  /\ k \in 1..Len(imgs)
  /\ task[k] = "encoding"
  /\ IF ok
     THEN /\ Finish(k, Uri(DataUri(imgs[k].src, "blob")), "embedded")
          /\ UNCHANGED <<canvasTimer, canvases>>
     ELSE /\ StartCanvas(k)
          /\ UNCHANGED imgs
  /\ UNCHANGED <<epc, imgs0, loopI, fetchTimer, fetches, response>>
  /\ UNCHANGED <<tableVars, extractVars, macroVars, postVars, cellVars, statsVars, listenerVars>>

\* img.onload: clearTimeout(timer); the canvas exports, or is tainted and
\* both strategies have failed
CanvasLoad(k, tainted) ==
  /\ task[k] = "canvas"
  /\ canvasTimer' = [canvasTimer EXCEPT ![k] = FALSE]
  /\ IF tainted
     THEN Finish(k, Threw, "failed")
     ELSE Finish(k, Uri(DataUri(imgs[k].src, "canvas")), "embedded")
  /\ UNCHANGED <<epc, imgs0, loopI, fetchTimer, fetches, canvases, response>>
  /\ UNCHANGED <<tableVars, extractVars, macroVars, postVars, cellVars, statsVars, listenerVars>>

\* variant: a failed canvas attempt starts the fetch again
CanvasErrorRetry(k) ==
  /\ task[k] = "canvas"
  /\ canvasTimer' = [canvasTimer EXCEPT ![k] = FALSE]
  /\ task' = [task EXCEPT ![k] = "fetching"]
  /\ fetches' = [fetches EXCEPT ![k] = @ + 1]
  /\ fetchTimer' = [fetchTimer EXCEPT ![k] = TRUE]
  /\ UNCHANGED <<epc, imgs0, imgs, loopI, canvases, response>>
  /\ UNCHANGED <<tableVars, extractVars, macroVars, postVars, cellVars, statsVars, listenerVars>>

\* img.onerror: clearTimeout(timer); reject: both strategies have failed
CanvasError(k) ==
  /\ task[k] = "canvas"
  /\ canvasTimer' = [canvasTimer EXCEPT ![k] = FALSE]
  /\ Finish(k, Threw, "failed")
  /\ UNCHANGED <<epc, imgs0, loopI, fetchTimer, fetches, canvases, response>>
  /\ UNCHANGED <<tableVars, extractVars, macroVars, postVars, cellVars, statsVars, listenerVars>>

\* the canvas timer fires: reject(new Error('Canvas image load timed out'))
CanvasTimeout(k) ==
  /\ k \in 1..Len(imgs)
  /\ task[k] = "canvas"
  /\ canvasTimer[k]
  /\ canvasTimer' = [canvasTimer EXCEPT ![k] = FALSE]
  /\ Finish(k, Threw, "failed")
  /\ UNCHANGED <<epc, imgs0, loopI, fetchTimer, fetches, canvases, response>>
  /\ UNCHANGED <<tableVars, extractVars, macroVars, postVars, cellVars, statsVars, listenerVars>>

\* ------------------------------------------------------------------------
\* Extraction of a page
\*   the DOM is a heap of nodes, id -> node; a node: its kind, the length
\*   of its serialization (chars), the state of its attributes, and the ids
\*   of its children. The element a selector of findContentElement matches
\*   has the index of the selector as its id.
\* ------------------------------------------------------------------------
Selectors == 1..9

MinContentLength == 100

NoElement == 0

NotLocated ==
  "Could not locate the Confluence page content. Make sure you are viewing a Confluence page."

Range(s) == { s[i] : i \in DOMAIN s }

Node(kind, chars) == [kind |-> kind, chars |-> chars, state |-> "source", kids |-> <<>>]

\* a whitespace text node, a paragraph of n characters, an element
\* removeUnwantedElements removes, a macro a pass replaces, an image
Space == Node("#text", 1)
\* the children an element of the page can have
Contents ==
  LET Img == Node("img", 40)
  IN
  LET Macro == Node("macro", 40)
  IN
  LET Toc == Node("toc", 40)
  IN
  LET Para(n) == Node("p", n)
  IN
  { <<>>, <<Space>>, <<Para(100)>>, <<Space, Para(100)>>, <<Para(101)>>,
    <<Toc>>, <<Img>>, <<Toc, Macro, Img>> }

KidId(s, j) == 10 * s + j

LiveIds(pg) ==
  { s \in Selectors : pg[s].present }
    \cup UNION { { KidId(s, j) : j \in 1..Len(pg[s].kids) } : s \in Selectors }

\* the live document of a page
HeapOf(pg) ==
  [id \in LiveIds(pg) |->
     IF id \in Selectors
     THEN [kind |-> "root", chars |-> 0, state |-> "source",
           kids |-> [j \in 1..Len(pg[id].kids) |-> KidId(id, j)]]
     ELSE pg[id \div 10].kids[id % 10]]

\* document.querySelector(sel)
querySelector(s) == IF s \in DOMAIN heap THEN s ELSE NoElement

\* el.innerHTML: the serializations of the children, in order
innerHTML(h, id) == [j \in 1..Len(h[id].kids) |-> h[h[id].kids[j]]]

\* variant: the string as it is
trimNothing(nodes) == nodes

\* String.prototype.trim: the whitespace at both ends is dropped
trim(nodes) ==
  LET solid == { j \in 1..Len(nodes) : nodes[j].kind # "#text" }
  IN  IF solid = {} THEN <<>>
      ELSE SubSeq(nodes, CHOOSE j \in solid : \A i \in solid : j <= i, MaxOf(solid))

\* .length
length(nodes) == SumSeq([j \in 1..Len(nodes) |-> nodes[j].chars])

\* one loop of findContentElement over the selectors, from selector i on
RECURSIVE firstSelector(_, _)
firstSelector(i, minLength) ==
  IF i \notin Selectors THEN NoElement
  ELSE IF querySelector(i) # NoElement /\ length(trim(innerHTML(heap, querySelector(i)))) > minLength
       THEN querySelector(i)
       ELSE firstSelector(i + 1, minLength)

findContentElement ==
  IF firstSelector(1, MinContentLength) # NoElement
  THEN firstSelector(1, MinContentLength)
  ELSE firstSelector(1, 0)

CloneId(id) == 100 + id

\* variant: the element itself
cloneNodeByReference(h, id) == [root |-> id, heap |-> h]

\* contentEl.cloneNode(true): new nodes for the element and its subtree
cloneNode(h, id) ==
  [root |-> CloneId(id),
   heap |-> [c \in { CloneId(k) : k \in {id} \cup Range(h[id].kids) } |->
               IF c = CloneId(id)
               THEN [h[id] EXCEPT !.kids = [j \in 1..Len(h[id].kids) |-> CloneId(h[id].kids[j])]]
               ELSE h[c - 100]] @@ h]

\* preprocessContent(container): removeUnwantedElements detaches, the
\* convert passes replace a macro by an element they create, cleanupImages
\* sets the src of an image
preprocessContent(h, container) ==
  LET CreatedId(id) == 200 + id
      kept == SelectSeq(h[container].kids, LAMBDA k : h[k].kind # "toc")
      macros == { k \in Range(kept) : h[k].kind = "macro" }
      created == [c \in { CreatedId(k) : k \in macros } |->
                    [kind |-> "blockquote", chars |-> h[c - 200].chars, state |-> "created", kids |-> <<>>]]
  IN  [id \in DOMAIN h \cup DOMAIN created |->
         IF id \in DOMAIN created THEN created[id]
         ELSE IF id = container
         THEN [h[id] EXCEPT !.kids = [j \in 1..Len(kept) |->
                                        IF kept[j] \in macros THEN CreatedId(kept[j]) ELSE kept[j]]]
         ELSE IF id \in Range(kept) /\ h[id].kind = "img" THEN [h[id] EXCEPT !.state = "resolved"]
         ELSE h[id]]

\* container.querySelectorAll('img')
ImagesOf(h, container) == { k \in Range(h[container].kids) : h[k].kind = "img" }

NoMessage == [action |-> "none", embedImages |-> FALSE]

NoReply == [success |-> FALSE, error |-> "", html |-> <<>>]

Status(kind, txt) == [kind |-> kind, text |-> txt]

\* sendResponse({ success: true, data }) with html: clone.innerHTML
ReplyData(h, root) == [success |-> TRUE, error |-> "", html |-> innerHTML(h, root)]

\* the Markdown of the html of a reply: one block per node, and the final newline
Markdown(html) == [j \in 1..Len(html) |-> html[j].kind] \o <<"\n">>

\* no page is being extracted
ExtractIdle ==
  /\ page = <<>>
  /\ heap = <<>>
  /\ contentEl = NoElement
  /\ clone = NoElement
  /\ message = NoMessage
  /\ reply = NoReply
  /\ statusLine = Status("none", "")
  /\ markdownContent = <<>>
  /\ xpc = "none"

\* the click on Convert: handleConvert up to the await of the response
HandleConvert(embedImages) ==
  /\ xpc = "idle"
  /\ message' = [action |-> "extract", embedImages |-> embedImages]
  /\ xpc' = "requested"
  /\ UNCHANGED <<page, heap, contentEl, clone, reply, statusLine, markdownContent>>
  /\ UNCHANGED <<tableVars, embedVars, macroVars, postVars, cellVars, statsVars, listenerVars>>

\* the listener of the content script: extractPage up to its first
\* suspension, and sendResponse when it does not suspend
ExtractPage ==
  /\ xpc = "requested"
  /\ message.action = "extract"
  /\ contentEl' = findContentElement
  /\ IF findContentElement = NoElement
     THEN /\ reply' = [success |-> FALSE, error |-> NotLocated, html |-> <<>>]
          /\ xpc' = "replied"
          /\ UNCHANGED <<heap, clone>>
     ELSE LET cloned == cloneNode(heap, findContentElement)
              h == preprocessContent(cloned.heap, cloned.root)
          IN  /\ clone' = cloned.root
              /\ heap' = h
              /\ IF message.embedImages /\ ImagesOf(h, cloned.root) # {}
                 THEN /\ xpc' = "embedding"
                      /\ UNCHANGED reply
                 ELSE /\ reply' = ReplyData(h, cloned.root)
                      /\ xpc' = "replied"
  /\ UNCHANGED <<page, message, statusLine, markdownContent>>
  /\ UNCHANGED <<tableVars, embedVars, macroVars, postVars, cellVars, statsVars, listenerVars>>

\* fetchAndEmbedImage(img) settles: img.src = dataUri, or the src is kept
EmbedSettle(k, ok) ==
  /\ xpc = "embedding"
  /\ k \in ImagesOf(heap, clone)
  /\ heap[k].state = "resolved"
  /\ heap' = [heap EXCEPT ![k].state = IF ok THEN "embedded" ELSE "kept"]
  /\ UNCHANGED <<page, contentEl, clone, message, reply, statusLine, markdownContent, xpc>>
  /\ UNCHANGED <<tableVars, embedVars, macroVars, postVars, cellVars, statsVars, listenerVars>>

\* embedImagesAsBase64 returns, extractPage returns, sendResponse
EmbedReturn ==
  /\ xpc = "embedding"
  /\ \A k \in ImagesOf(heap, clone) : heap[k].state # "resolved"
  /\ reply' = ReplyData(heap, clone)
  /\ xpc' = "replied"
  /\ UNCHANGED <<page, heap, contentEl, clone, message, statusLine, markdownContent>>
  /\ UNCHANGED <<tableVars, embedVars, macroVars, postVars, cellVars, statsVars, listenerVars>>

\* handleConvert from the response on
HandleResponse ==
  LET NoContentFound == "No content found on this page."
  IN
  LET FailedToExtract == "Failed to extract content. Is this a Confluence page?"
  IN
  /\ xpc = "replied"
  /\ IF ~reply.success
     THEN /\ statusLine' = Status("error", IF reply.error # "" THEN reply.error ELSE FailedToExtract)
          /\ UNCHANGED markdownContent
     ELSE IF length(trim(reply.html)) = 0
     THEN /\ statusLine' = Status("error", NoContentFound)
          /\ UNCHANGED markdownContent
     ELSE /\ markdownContent' = Markdown(reply.html)
          /\ statusLine' = Status("success", "Conversion complete!")
  /\ xpc' = "done"
  /\ UNCHANGED <<page, heap, contentEl, clone, message, reply>>
  /\ UNCHANGED <<tableVars, embedVars, macroVars, postVars, cellVars, statsVars, listenerVars>>

\* ------------------------------------------------------------------------
\* preprocessContent over one element of the clone
\*   an image: its URL attributes (a src as in the embedder: scheme "none"
\*   for an absent attribute, "data", "blob", "placeholder" for a URL that
\*   includes 'placeholder', "relative", "http"; body names the attribute
\*   the URL was written in) and whether it carries a resource id.
\* ------------------------------------------------------------------------
\* `${baseUrl}/download/attachments/${resourceId}`
AttachmentUrl == Src("http", 5, "")

\* [...].filter(Boolean)
Candidates(img) ==
  SelectSeq(<<img.dataImageSrc, img.dataMediaSrc, img.dataSrc, img.src>>, LAMBDA u : u.scheme # "none")

\* the loop of resolveBestImageUrl over the candidates
RECURSIVE firstUsable(_)
firstUsable(candidates) ==
  IF candidates = <<>> THEN NoSrc
  ELSE LET url == Head(candidates)
       IN  IF url.scheme = "data" THEN url
           ELSE IF url.scheme = "blob" THEN firstUsable(Tail(candidates))
           ELSE IF url.scheme = "placeholder" THEN firstUsable(Tail(candidates))
           ELSE IF url.scheme # "http" THEN Src("http", url.body, "")
           ELSE url

\* variant: the attachment URL is tried before the candidates
resolveBestImageUrlAttachmentFirst(img) ==
  IF img.resourceId THEN AttachmentUrl
  ELSE IF firstUsable(Candidates(img)) # NoSrc THEN firstUsable(Candidates(img))
  ELSE img.src

resolveBestImageUrl(img) ==
  IF firstUsable(Candidates(img)) # NoSrc THEN firstUsable(Candidates(img))
  ELSE IF img.resourceId THEN AttachmentUrl
  ELSE img.src

\* cleanupImages: the src is set, the Confluence attributes are removed
cleanupImages(e) ==
  IF e.kind # "img" THEN e
  ELSE [e EXCEPT !.src = IF resolveBestImageUrl(e) # NoSrc THEN resolveBestImageUrl(e) ELSE @,
                 !.dataImageSrc = NoSrc,
                 !.resourceId = FALSE]

\* the images a page can hold
ImageEls ==
  \* the URL of scheme s written in attribute a: 1 data-image-src,
  \* 2 data-media-src, 3 data-src, 4 src
  LET Url(s, a) == IF s = "none" THEN NoSrc ELSE Src(s, a, IF s = "data" THEN "orig" ELSE "")
  IN
  LET UrlSchemes == {"none", "data", "blob", "placeholder", "relative", "http"}
      ImgEl(u1, u2, u3, u4, res) ==
        [kind |-> "img", dataImageSrc |-> u1, dataMediaSrc |-> u2, dataSrc |-> u3, src |-> u4,
         resourceId |-> res]
  IN
  { ImgEl(Url(s1, 1), Url(s2, 2), Url(s3, 3), Url(s4, 4), res) :
      s1 \in UrlSchemes, s2 \in {"none", "http"}, s3 \in UrlSchemes, s4 \in UrlSchemes, res \in BOOLEAN }

\* the image rule: src ? `![${alt}](${src})` : `![${alt}]`, the alt of an
\* image without one being 'image'
confluenceImage(e) ==
  \* the text of a URL
  LET Href(u) ==
        CASE u.scheme = "data" -> "data:image/png;base64," \o ToString(u.body)
          [] u.scheme = "blob" -> "blob:" \o ToString(u.body)
          [] u.scheme = "placeholder" -> "https://wiki/placeholder/" \o ToString(u.body)
          [] u.scheme = "relative" -> "/download/" \o ToString(u.body)
          [] u.scheme = "http" -> "https://wiki/download/" \o ToString(u.body)
          [] OTHER -> ""
  IN
  IF e.src.scheme # "none" THEN <<"![image](" \o Href(e.src) \o ")">> ELSE <<"![image]">>

\* ------------------------------------------------------------------------
\* Panels
\*   a panel element: whether it has the class confluence-information-macro,
\*   its class of the class table ("" for none), its data-panel-type
\*   attribute ("none" for an absent one), whether it has the class panel,
\*   the text of its .panelHeader ("none" without one), the text of its body.
\*   An emoji is written as its code point.
\* ------------------------------------------------------------------------
\* panelClasses
panelClasses(cls) ==
  CASE cls = "confluence-information-macro-information" -> "Info"
    [] cls = "confluence-information-macro-note" -> "Note"
    [] cls = "confluence-information-macro-warning" -> "Warning"
    [] cls = "confluence-information-macro-tip" -> "Tip"
    [] cls = "confluence-information-macro-success" -> "Success"
    [] OTHER -> ""

getEmojiForPanel(type) ==
  CASE type = "Info" -> "U+2139"
    [] type = "Note" -> "U+1F4DD"
    [] type = "Warning" -> "U+26A0"
    [] type = "Tip" -> "U+1F4A1"
    [] type = "Success" -> "U+2705"
    [] type = "Error" -> "U+274C"
    [] OTHER -> "U+2139"

\* type.charAt(0).toUpperCase() + type.slice(1)
Capitalize(type) ==
  CASE type = "info" -> "Info"
    [] type = "warning" -> "Warning"
    [] type = "error" -> "Error"
    [] type = "custom" -> "Custom"
    [] OTHER -> type

PanelEl(macro, typeClass, panelType, panel, header, body) ==
  [kind |-> "panel", macro |-> macro, typeClass |-> typeClass, panelType |-> panelType,
   panel |-> panel, header |-> header, body |-> body]

Plain(t) == [strong |-> FALSE, text |-> t]

\* convertPanels: the three loops in their order; an element a loop has
\* replaced is a blockquote and matches no later loop
convertPanels(e) ==
  \* a <p> holding <strong>t</strong>, a <p> holding the text t
  LET Strong(t) == [strong |-> TRUE, text |-> t]
  IN
  \* `<strong>${getEmojiForPanel(type)} ${type}:</strong>`
  LET PanelPrefix(type) == Strong(getEmojiForPanel(type) \o " " \o type \o ":")
  IN
  \* the blockquote: the prefix paragraphs, then the children of the body
  LET Blockquote(prefix, body) == [kind |-> "blockquote", paras |-> prefix \o <<Plain(body)>>]
  IN
  IF e.kind # "panel" THEN e
  ELSE IF e.macro
  THEN Blockquote(<<PanelPrefix(IF panelClasses(e.typeClass) # "" THEN panelClasses(e.typeClass)
                                ELSE "Note")>>, e.body)
  ELSE IF e.panelType # "none"
  THEN Blockquote(<<PanelPrefix(Capitalize(IF e.panelType # "" THEN e.panelType ELSE "info"))>>, e.body)
  ELSE IF e.panel
  THEN Blockquote(IF e.header # "none" THEN <<Strong(e.header)>> ELSE <<>>, e.body)
  ELSE e

\* the paragraphs of an element: strongDelimiter around a strong run, a
\* blank line between two paragraphs
Paragraphs(paras) ==
  Flatten([i \in 1..Len(paras) |->
             (IF i = 1 THEN <<>> ELSE <<"">>)
               \o <<IF paras[i].strong THEN "**" \o paras[i].text \o "**" ELSE paras[i].text>>])

\* the blockquote rule: every line of the content is prefixed with '> '
blockquote(e) ==
  LET content == Paragraphs(e.paras)
  IN  [i \in 1..Len(content) |-> "> " \o content[i]]

\* an element no pass has converted: the paragraphs of its children
plainBlock(e) ==
  Paragraphs((IF e.header # "none" THEN <<Plain(e.header)>> ELSE <<>>) \o <<Plain(e.body)>>)

\* the panels a page can hold
PanelEls ==
  LET PanelClassNames ==
        { "confluence-information-macro-information", "confluence-information-macro-note",
          "confluence-information-macro-warning", "confluence-information-macro-tip",
          "confluence-information-macro-success" }
  IN
  { PanelEl(macro, cls, type, panel, header, "Be careful") :
      macro \in BOOLEAN, cls \in {""} \cup PanelClassNames,
      type \in {"none", "", "info", "warning", "error", "custom"},
      panel \in BOOLEAN, header \in {"none", "Heads up"} }

\* ------------------------------------------------------------------------
\* Code blocks
\*   a code element: of the legacy editor (.code.panel, with or without a
\*   pre) or of the new editor ([data-node-type="codeBlock"]); the token
\*   after 'brush:' in data-syntaxhighlighter-params, the token after
\*   language-/lang-/brush- in the class names, the data-language attribute
\*   ("" when there is none), and its text.
\* ------------------------------------------------------------------------
\* the run of word characters (\w+) a token starts with
Word(token) == IF token = "c#" THEN "c" ELSE token

\* String.prototype.toLowerCase
toLowerCase(token) == IF token = "PY" THEN "py" ELSE token

\* the map of normalizeLanguage
LanguageMap(lang) ==
  CASE lang = "js" -> "javascript"
    [] lang = "ts" -> "typescript"
    [] lang = "py" -> "python"
    [] lang = "rb" -> "ruby"
    [] lang = "sh" -> "bash"
    [] lang = "shell" -> "bash"
    [] lang = "yml" -> "yaml"
    [] lang = "c#" -> "csharp"
    [] lang = "c++" -> "cpp"
    [] OTHER -> ""

detectCodeLanguage(e) ==
  LET normalizeLanguage(lang) ==
        IF LanguageMap(toLowerCase(lang)) # "" THEN LanguageMap(toLowerCase(lang)) ELSE toLowerCase(lang)
  IN
  IF e.brush # "" THEN normalizeLanguage(Word(e.brush))
  ELSE IF e.cls # "" THEN normalizeLanguage(Word(e.cls))
  ELSE IF e.dataLanguage # "" THEN normalizeLanguage(e.dataLanguage)
  ELSE ""

\* convertCodeBlocks: the loop over the legacy panels, then the loop over
\* the codeBlock nodes
convertCodeBlocks(e) ==
  \* <pre><code class="language-${lang}">, the class left out for an empty lang
  LET Pre(lang, txt) == [kind |-> "pre", language |-> lang, text |-> txt]
  IN
  IF e.kind # "code" THEN e
  ELSE IF e.editor = "legacy"
  THEN (IF e.hasPre THEN Pre(detectCodeLanguage(e), e.text) ELSE e)
  ELSE Pre(e.dataLanguage, e.text)

\* the fenced code block: fence and language, the code, fence (the fence
\* of three backquotes is written with three quotes)
fencedCodeBlock(e) == <<"'''" \o e.language, e.text, "'''">>

\* the code elements a page can hold
CodeEls ==
  LET LangTokens == {"", "js", "PY", "c#", "go"}
      CodeEl(editor, hasPre, brush, cls, dataLanguage, txt) ==
        [kind |-> "code", editor |-> editor, hasPre |-> hasPre, brush |-> brush, cls |-> cls,
         dataLanguage |-> dataLanguage, text |-> txt]
  IN
  { CodeEl(editor, hasPre, brush, cls, lang, "x = 1") :
      editor \in {"legacy", "new"}, hasPre \in BOOLEAN,
      brush \in LangTokens, cls \in LangTokens, lang \in LangTokens }

\* ------------------------------------------------------------------------
\* Task lists
\*   a task item: its text, its checkbox input ("none", "unchecked",
\*   "checked"), whether it holds a .task-status.task-status-complete
\*   element, its data-task-state attribute, and the items of the task list
\*   nested in it.
\* ------------------------------------------------------------------------
\* list.querySelectorAll('.inline-task-item, ...'): the items and the items
\* nested in them, in document order
TaskItemsOf(items) ==
  Flatten([i \in 1..Len(items) |-> <<items[i]>> \o items[i].nested])

\* item.querySelector('input[checked], .task-status-complete') !== null
\*   || item.getAttribute('data-task-state') === 'DONE'
isChecked(item) ==
  \/ item.input = "checked"
  \/ item.complete
  \/ \E j \in 1..Len(item.nested) : item.nested[j].input = "checked" \/ item.nested[j].complete
  \/ item.state = "DONE"

\* the clone of an item without input[type="checkbox"] and .task-status
WithoutControls(item) ==
  [item EXCEPT !.input = "none", !.complete = FALSE,
               !.nested = [j \in 1..Len(item.nested) |->
                             [item.nested[j] EXCEPT !.input = "none", !.complete = FALSE]]]

convertTaskLists(e) ==
  \* the li of an item: data-task and the innerHTML of the stripped clone
  LET TaskLi(item) ==
        [task |-> IF isChecked(item) THEN "checked" ELSE "unchecked",
         content |-> WithoutControls(item)]
  IN
  IF e.kind = "tasklist"
  THEN [kind |-> "ul", items |-> [i \in 1..Len(TaskItemsOf(e.items)) |-> TaskLi(TaskItemsOf(e.items)[i])]]
  \* a ul made by an earlier run: the task list that the innerHTML of a li
  \* still holds is converted, its li elements take the place of its items
  ELSE IF e.kind = "ul"
  THEN [e EXCEPT !.items =
          [i \in 1..Len(e.items) |->
             [e.items[i] EXCEPT !.content.nested = [j \in 1..Len(@) |-> TaskLi(@[j])]]]]
  ELSE e

\* the list item of a list no rule of addConfluenceRules matches
listItem(item) == "-   " \o item.text

\* the rule taskListItem: `- ${checkbox} ${text}\n`, the text holding the
\* content of the li, a nested list included
taskListItem(li) ==
  <<"- " \o (IF li.task = "checked" THEN "[x]" ELSE "[ ]") \o " " \o li.content.text>>
    \o [j \in 1..Len(li.content.nested) |-> listItem(li.content.nested[j])]

\* the list: the lines of its items
list(e) == Flatten([i \in 1..Len(e.items) |-> taskListItem(e.items[i])])

\* the items a task list can hold
TaskItems ==
  LET TaskItem(txt, input, complete, state, nested) ==
        [text |-> txt, input |-> input, complete |-> complete, state |-> state, nested |-> nested]
  IN
  { TaskItem("Ship it", input, complete, state, <<>>) :
      input \in {"none", "unchecked", "checked"}, complete \in BOOLEAN, state \in {"", "DONE"} }
    \cup { TaskItem("Ship it", "unchecked", FALSE, "", <<TaskItem("Sub", input, FALSE, "", <<>>)>>) :
             input \in {"unchecked", "checked"} }

TaskEls == { [kind |-> "tasklist", items |-> items] : items \in SeqsUpTo(TaskItems, MaxItems) \ {<<>>} }

\* the passes of preprocessContent that rewrite the element, in their order
preprocessElement(e) == cleanupImages(convertTaskLists(convertPanels(convertCodeBlocks(e))))

\* the passes of preprocessContent that rewrite the element, by name
SubPasses == {"convertCodeBlocks", "convertPanels", "convertTaskLists", "cleanupImages"}

subPass(name, e) ==
  CASE name = "convertCodeBlocks" -> convertCodeBlocks(e)
    [] name = "convertPanels" -> convertPanels(e)
    [] name = "convertTaskLists" -> convertTaskLists(e)
    [] name = "cleanupImages" -> cleanupImages(e)

\* the rule of td.turndown that renders the element
turndown(e) ==
  CASE e.kind = "img" -> confluenceImage(e)
    [] e.kind = "blockquote" -> blockquote(e)
    [] e.kind = "panel" -> plainBlock(e)
    [] e.kind = "pre" -> fencedCodeBlock(e)
    [] e.kind = "code" -> <<e.text>>
    [] e.kind = "ul" -> list(e)
    [] OTHER -> <<>>

\* the elements a page can hold
SourceElements == ImageEls \cup PanelEls \cup CodeEls \cup TaskEls

\* no element is being preprocessed
MacroIdle ==
  /\ el = <<>>
  /\ pel = <<>>
  /\ out = <<>>
  /\ mpc = "none"
  /\ pass = "none"
  /\ again = <<>>

\* ------------------------------------------------------------------------
\* postProcess
\*   a text is the sequence of its characters: "LF" a newline, "SP" a
\*   space, "a" a lower-case letter, "D" an upper-case letter, "BQ" a
\*   backquote, "|" a pipe, "TAG" a whole tag of the table family
\*   (<td>, </tr>, ...).
\* ------------------------------------------------------------------------
Blank == {"SP"}

Whitespace == {"SP", "LF"}

UpperOrSpace == {"D", "SP"}

\* the length of the longest prefix of t made of characters of S
RECURSIVE RunLen(_, _)
RunLen(t, S) == IF t = <<>> \/ Head(t) \notin S THEN 0 ELSE 1 + RunLen(Tail(t), S)

Drop(t, n) == SubSeq(t, n + 1, Len(t))

\* result.replace(/\n{3,}/g, '\n\n')
RECURSIVE collapseBlankLines(_)
collapseBlankLines(t) ==
  IF t = <<>> THEN <<>>
  ELSE LET n == RunLen(t, {"LF"})
       IN  IF n >= 3 THEN <<"LF", "LF">> \o collapseBlankLines(Drop(t, n))
           ELSE IF n > 0 THEN SubSeq(t, 1, n) \o collapseBlankLines(Drop(t, n))
           ELSE <<Head(t)>> \o collapseBlankLines(Tail(t))

\* result.replace(/[ \t]+$/gm, '')
RECURSIVE stripTrailingWhitespace(_)
stripTrailingWhitespace(t) ==
  IF t = <<>> THEN <<>>
  ELSE LET n == RunLen(t, Blank)
       IN  IF n > 0
           THEN (IF n = Len(t) \/ t[n + 1] = "LF" THEN <<>> ELSE SubSeq(t, 1, n))
                  \o stripTrailingWhitespace(Drop(t, n))
           ELSE <<Head(t)>> \o stripTrailingWhitespace(Tail(t))

\* result.replace(/```(\w*)\n/g, '```$1\n'): every match is replaced by itself
codeFenceSpacing(t) == t

\* the length of the match of /\s+`([A-Z ]+)`\s+/ at the start of t, 0 without one
BadgeMatch(t) ==
  LET w1 == RunLen(t, Whitespace)
      u == RunLen(Drop(t, w1 + 1), UpperOrSpace)
      w2 == RunLen(Drop(t, w1 + u + 2), Whitespace)
  IN  IF /\ w1 > 0
         /\ Len(t) > w1 /\ t[w1 + 1] = "BQ"
         /\ u > 0
         /\ Len(t) > w1 + u + 1 /\ t[w1 + u + 2] = "BQ"
         /\ w2 > 0
      THEN w1 + u + 2 + w2
      ELSE 0

\* result.replace(/\s+`([A-Z ]+)`\s+/g, ' `$1` ')
RECURSIVE statusBadgeSpaces(_)
statusBadgeSpaces(t) ==
  IF t = <<>> THEN <<>>
  ELSE IF BadgeMatch(t) > 0
  THEN LET w1 == RunLen(t, Whitespace)
           u == RunLen(Drop(t, w1 + 1), UpperOrSpace)
       IN  <<"SP", "BQ">> \o SubSeq(t, w1 + 2, w1 + 1 + u) \o <<"BQ", "SP">>
             \o statusBadgeSpaces(Drop(t, BadgeMatch(t)))
  ELSE <<Head(t)>> \o statusBadgeSpaces(Tail(t))

\* the match of /^(\|.+\|)\s*$/m at the start of t, a start of line: the
\* length of the group and the length of the match, 0 and 0 without one
RowMatch(t) ==
  LET NotNewline == {"SP", "a", "D", "BQ", "|", "TAG"}
      line == RunLen(t, NotNewline)
      pipes == { k \in 3..line : t[k] = "|" }
      k == MaxOf(pipes)
      w == RunLen(Drop(t, k), Whitespace)
      newlines == { p \in (k + 1)..(k + w) : t[p] = "LF" }
  IN  IF line > 0 /\ t[1] = "|" /\ pipes # {} /\ (\A j \in (k + 1)..line : t[j] \in Blank)
      THEN [group |-> k, all |-> IF k + w = Len(t) THEN Len(t) ELSE MaxOf(newlines) - 1]
      ELSE [group |-> 0, all |-> 0]

\* result.replace(/^(\|.+\|)\s*$/gm, '$1'), from a start of line (bol) or not
RECURSIVE tableRowSpaces(_, _)
tableRowSpaces(t, bol) ==
  IF t = <<>> THEN <<>>
  ELSE IF bol /\ RowMatch(t).group > 0
  THEN SubSeq(t, 1, RowMatch(t).group) \o tableRowSpaces(Drop(t, RowMatch(t).all), FALSE)
  ELSE <<Head(t)>> \o tableRowSpaces(Tail(t), Head(t) = "LF")

\* result.replace(/<\/?(table|thead|...)[^>]*>/gi, '')
stripTableTags(t) == SelectSeq(t, LAMBDA c : c # "TAG")

\* the transform of a name
Transform(name, t) ==
  CASE name = "collapseBlankLines" -> collapseBlankLines(t)
    [] name = "stripTrailingWhitespace" -> stripTrailingWhitespace(t)
    [] name = "codeFenceSpacing" -> codeFenceSpacing(t)
    [] name = "statusBadgeSpaces" -> statusBadgeSpaces(t)
    [] name = "tableRowSpaces" -> tableRowSpaces(t, TRUE)
    [] name = "stripTableTags" -> stripTableTags(t)

\* the transforms applied one after the other
RECURSIVE ApplyAll(_, _)
ApplyAll(names, t) == IF names = <<>> THEN t ELSE ApplyAll(Tail(names), Transform(Head(names), t))

\* the order of postProcess
PostProcessOrder ==
  <<"collapseBlankLines", "stripTrailingWhitespace", "codeFenceSpacing", "statusBadgeSpaces",
    "tableRowSpaces", "stripTableTags">>

postProcess(markdown) == ApplyAll(PostProcessOrder, markdown)

\* the orders of the blank-line collapse, the trailing-whitespace strip, the
\* badge space collapse and the tag strip, the two other transforms in place
Reorderings ==
  { o \in [1..6 -> Range(PostProcessOrder)] :
      /\ Range(o) = Range(PostProcessOrder)
      /\ o[3] = "codeFenceSpacing"
      /\ o[5] = "tableRowSpaces" }

\* td.turndown has returned the text
PostProcess ==
  /\ ppc = "raw"
  /\ processed' = postProcess(raw)
  /\ order' = PostProcessOrder
  /\ ppc' = "processed"
  /\ UNCHANGED raw
  /\ UNCHANGED <<tableVars, embedVars, extractVars, macroVars, cellVars, statsVars, listenerVars>>

\* the same transforms in another order
PostProcessReordered(o) ==
  /\ ppc = "raw"
  /\ o # PostProcessOrder
  /\ processed' = ApplyAll(o, raw)
  /\ order' = o
  /\ ppc' = "processed"
  /\ UNCHANGED raw
  /\ UNCHANGED <<tableVars, embedVars, extractVars, macroVars, cellVars, statsVars, listenerVars>>

\* ------------------------------------------------------------------------
\* cleanCellContent over the nodes of one cell.
\*   a cell: sized (it carries a width/height attribute or style) and kids,
\*   its child nodes; a node is a text node (kind "#text", its characters
\*   "a", "SP", "LF"), a block p/div (kind "p"), an inline element (kind
\*   "span") or a line break (kind "br"); blocks and inline elements have
\*   kids of their own.
\* ------------------------------------------------------------------------
TextNode(chars) == [kind |-> "#text", chars |-> chars, kids |-> <<>>]

Element(kind, kids) == [kind |-> kind, chars |-> <<>>, kids |-> kids]

\* the loop over cell.querySelectorAll('p, div'), the direct text nodes and
\* the size attributes of one cell
cleanCellNodes(c) ==
  \* child.textContent.replace(/\n/g, ' ').replace(/\s+/g, ' ')
  LET collapseWhitespace(chars) ==
        LET spaced == [i \in 1..Len(chars) |-> IF chars[i] = "LF" THEN "SP" ELSE chars[i]]
            Keep(i) == spaced[i] # "SP" \/ i = 1 \/ spaced[i - 1] # "SP"
        IN SelectSeq([i \in 1..Len(spaced) |-> IF Keep(i) THEN spaced[i] ELSE "CUT"],
                     LAMBDA ch : ch # "CUT")
  IN
  LET RECURSIVE HasBlock(_)
      HasBlock(kids) ==
        \E i \in 1..Len(kids) : kids[i].kind = "p" \/ HasBlock(kids[i].kids)
      \* cell.children.length
      Children(kids) == Cardinality({ i \in 1..Len(kids) : kids[i].kind # "#text" })
      \* the first block of the list in document order is replaced by its
      \* children, followed by a br unless it is the only child of the cell
      RECURSIVE UnwrapFirst(_, _)
      UnwrapFirst(kids, only) ==
        IF kids = <<>> THEN <<>>
        ELSE LET h == Head(kids) IN
             IF h.kind = "p"
               THEN h.kids \o (IF only THEN <<>> ELSE <<Element("br", <<>>)>>) \o Tail(kids)
             ELSE IF HasBlock(h.kids)
               THEN <<[h EXCEPT !.kids = UnwrapFirst(h.kids, FALSE)]>> \o Tail(kids)
             ELSE <<h>> \o UnwrapFirst(Tail(kids), only)
      RECURSIVE UnwrapBlocks(_)
      UnwrapBlocks(kids) ==
        IF HasBlock(kids) THEN UnwrapBlocks(UnwrapFirst(kids, Children(kids) = 1)) ELSE kids
      unwrapped == UnwrapBlocks(c.kids)
  IN [sized |-> FALSE,
      kids |-> [i \in 1..Len(unwrapped) |->
                  IF unwrapped[i].kind = "#text"
                    THEN TextNode(collapseWhitespace(unwrapped[i].chars))
                    ELSE unwrapped[i]]]

\* cleanCellContent has gone over the cell
CleanCell ==
  /\ cpc = "source"
  /\ cellOut' = cleanCellNodes(cellSrc)
  /\ cpc' = "cleaned"
  /\ UNCHANGED cellSrc
  /\ UNCHANGED <<tableVars, embedVars, extractVars, macroVars, postVars, statsVars, listenerVars>>

\* ------------------------------------------------------------------------
\* The analytics store (extension/lib/analytics.js).
\*   the data under the storage key: the three totals, pageTypes (page type
\*   -> count), optionUsage, lastActiveAt and dailyStats (day -> counts); a
\*   day is a number, days in the order of their YYYY-MM-DD strings; <<>>
\*   stands for a key that was never written.
\*   a call: kind, pageType and options (trackConversion), its step
\*   ("loading": the get is queued; "saving": the data is modified and the
\*   set is queued; "done": the set was served) and the data it holds.
\* ------------------------------------------------------------------------
MAX_DAILY_ENTRIES == 90

createDefault(now) ==
  [installedAt |-> now, lastActiveAt |-> now,
   totalConversions |-> 0, totalCopies |-> 0, totalDownloads |-> 0,
   pageTypes |-> <<>>,
   optionUsage |-> [frontmatter |-> 0, title |-> 0, embedImages |-> 0],
   dailyStats |-> <<>>]

\* the body of a track function between its load and its save
track(kind, pageType, options, loadedData, d) ==
  LET \* ensureDaily
      ensured ==
        [loadedData EXCEPT !.dailyStats =
           [k \in DOMAIN @ \cup {d} |->
              IF k \in DOMAIN @ THEN @[k] ELSE [conversions |-> 0, copies |-> 0, downloads |-> 0]]]
      \* pruneDailyStats: the oldest keys go while there are more than the maximum
      Kept(stats) ==
        { k \in DOMAIN stats : Cardinality({ j \in DOMAIN stats : j > k }) < MAX_DAILY_ENTRIES }
      pt == IF pageType = "" THEN "unknown" ELSE pageType
      Used(option) == IF option \in options THEN 1 ELSE 0
  IN CASE kind = "trackConversion" ->
            LET counted ==
                  [ensured EXCEPT
                     !.totalConversions = @ + 1,
                     !.dailyStats[d].conversions = @ + 1,
                     !.lastActiveAt = d,
                     !.pageTypes = [k \in DOMAIN @ \cup {pt} |->
                                      (IF k \in DOMAIN @ THEN @[k] ELSE 0) + (IF k = pt THEN 1 ELSE 0)],
                     !.optionUsage = [frontmatter |-> @.frontmatter + Used("frontmatter"),
                                      title |-> @.title + Used("title"),
                                      embedImages |-> @.embedImages + Used("embedImages")]]
            IN [counted EXCEPT !.dailyStats = [k \in Kept(@) |-> @[k]]]
       [] kind = "trackCopy" ->
            [ensured EXCEPT !.totalCopies = @ + 1, !.dailyStats[d].copies = @ + 1,
                            !.lastActiveAt = d]
       [] kind = "trackDownload" ->
            [ensured EXCEPT !.totalDownloads = @ + 1, !.dailyStats[d].downloads = @ + 1,
                            !.lastActiveAt = d]
       [] kind = "trackPopupOpen" -> [loadedData EXCEPT !.lastActiveAt = d]

\* the popup calls a track function and does not await it; the function
\* calls load(), which queues a get
Track(kind, pageType, options) ==
  /\ Len(calls) < MaxCalls
  /\ calls' = Append(calls, [kind |-> kind, pageType |-> pageType, options |-> options,
                              step |-> "loading", data |-> <<>>])
  /\ queue' = Append(queue, Len(calls) + 1)
  /\ UNCHANGED <<store0, store, day>>
  /\ UNCHANGED <<tableVars, embedVars, extractVars, macroVars, postVars, cellVars, listenerVars>>

\* chrome.storage.local serves its oldest request: a get hands the stored
\* data (or the default) to its call, which modifies it and queues the set
\* of save(); a set writes the data of its call
StorageServes ==
  /\ queue # <<>>
  /\ LET i == Head(queue)
         c == calls[i]
     IN IF c.step = "loading"
          THEN LET got == IF DOMAIN store = {} THEN createDefault(day) ELSE store
               IN /\ calls' = [calls EXCEPT ![i].step = "saving",
                                            ![i].data = track(c.kind, c.pageType, c.options, got, day)]
                  /\ queue' = Append(Tail(queue), i)
                  /\ UNCHANGED store
          ELSE /\ store' = c.data
               /\ calls' = [calls EXCEPT ![i].step = "done"]
               /\ queue' = Tail(queue)
  /\ UNCHANGED <<store0, day>>
  /\ UNCHANGED <<tableVars, embedVars, extractVars, macroVars, postVars, cellVars, listenerVars>>

\* midnight passes: today() returns the next day
DayPasses ==
  /\ day < Len(store0.dailyStats) + MaxDays
  /\ day' = day + 1
  /\ UNCHANGED <<store0, store, calls, queue>>
  /\ UNCHANGED <<tableVars, embedVars, extractVars, macroVars, postVars, cellVars, listenerVars>>

\* ------------------------------------------------------------------------
\* The message listener of one page (content script, lines 20-46) and the
\* popup's requests to it.
\*   a message: action, embedImages, pending (the listeners whose
\*   extractPage has not settled), responses (the calls of sendResponse for
\*   it) and success (the success field of the last response).
\* ------------------------------------------------------------------------
\* the content script runs in the page: the guard on window.__markBridgeLoaded,
\* then chrome.runtime.onMessage.addListener
RunContentScript ==
  /\ injections' = injections + 1
  /\ loaded' = TRUE
  /\ listeners' = IF loaded THEN listeners ELSE listeners + 1

\* the browser injects the content script (manifest, or another extension page)
InjectContentScript ==
  /\ injections < MaxInjections
  /\ RunContentScript
  /\ UNCHANGED msgs
  /\ UNCHANGED <<tableVars, embedVars, extractVars, macroVars, postVars, cellVars, statsVars>>

\* ensureContentScript: a ping; every listener answers it at once; with no
\* listener the ping fails and the script is injected
ensureContentScript ==
  /\ Len(msgs) < MaxMessages
  /\ IF listeners = 0
       THEN /\ injections < MaxInjections
            /\ RunContentScript
            /\ UNCHANGED msgs
       ELSE /\ msgs' = Append(msgs, [action |-> "ping", embedImages |-> FALSE, pending |-> 0,
                                     responses |-> listeners, success |-> TRUE])
            /\ UNCHANGED <<loaded, listeners, injections>>
  /\ UNCHANGED <<tableVars, embedVars, extractVars, macroVars, postVars, cellVars, statsVars>>

\* handleConvert sends 'extract' after ensureContentScript: every listener
\* starts extractPage and keeps the channel open
SendExtract(embed) ==
  /\ Len(msgs) < MaxMessages
  /\ listeners > 0
  /\ msgs' = Append(msgs, [action |-> "extract", embedImages |-> embed, pending |-> listeners,
                           responses |-> 0, success |-> FALSE])
  /\ UNCHANGED <<loaded, listeners, injections>>
  /\ UNCHANGED <<tableVars, embedVars, extractVars, macroVars, postVars, cellVars, statsVars>>

\* the promise of extractPage settles for message i: .then answers with
\* success true, .catch with success false
ExtractSettles(i, ok) ==
  /\ i <= Len(msgs)
  /\ msgs[i].pending > 0
  /\ msgs' = [msgs EXCEPT ![i].pending = @ - 1, ![i].responses = @ + 1, ![i].success = ok]
  /\ UNCHANGED <<loaded, listeners, injections>>
  /\ UNCHANGED <<tableVars, embedVars, extractVars, macroVars, postVars, cellVars, statsVars>>

\* no cell is being cleaned
CellIdle ==
  /\ cellSrc = <<>>
  /\ cellOut = <<>>
  /\ cpc = "none"

\* no analytics call was made
StatsIdle ==
  /\ store0 = <<>>
  /\ store = <<>>
  /\ calls = <<>>
  /\ queue = <<>>
  /\ day = 0

\* no page is open
ListenerIdle ==
  /\ loaded = FALSE
  /\ listeners = 0
  /\ injections = 0
  /\ msgs = <<>>

\* no text is being post-processed
PostIdle ==
  /\ raw = <<>>
  /\ processed = <<>>
  /\ order = <<>>
  /\ ppc = "none"

\* no table is being normalized
TableIdle ==
  /\ src = <<>>
  /\ table = <<>>
  /\ prev = <<>>
  /\ md = <<>>
  /\ tpc = "none"

\* ------------------------------------------------------------------------
\* Specification of the table pipeline
\* ------------------------------------------------------------------------
InitTable ==
  LET CellCount(rows) == SumSeq([r \in 1..Len(rows) |-> Len(rows[r])])
      WithIds(rows) ==
        [r \in 1..Len(rows) |-> [j \in 1..Len(rows[r]) |-> [rows[r][j] EXCEPT !.id = 10 * r + j]]]
  IN
  /\ \E n \in 0..MaxRows : \E rows \in [1..n -> SourceRows] : \E l \in Layouts(n) :
       /\ CellCount(rows) <= MaxCells
       /\ src = Layout(WithIds(rows), l[1], l[2])
  /\ table = src
  /\ prev = src
  /\ md = <<>>
  /\ tpc = "source"
  /\ EmbedIdle /\ ExtractIdle /\ MacroIdle /\ PostIdle /\ CellIdle /\ StatsIdle /\ ListenerIdle

\* normalizeConfluenceTables on the clone; run again on its own result
NormalizeTable ==
  /\ tpc \in {"source", "normalized"}
  /\ prev' = table
  /\ table' = normalizeTable(table)
  /\ tpc' = IF tpc = "source" THEN "normalized" ELSE "renormalized"
  /\ UNCHANGED <<src, md>>
  /\ UNCHANGED <<embedVars, extractVars, macroVars, postVars, cellVars, statsVars, listenerVars>>

\* td.turndown(html) on the normalized table
RenderTable ==
  /\ tpc = "normalized"
  /\ md' = tableRule(table)
  /\ tpc' = "rendered"
  /\ UNCHANGED <<src, table, prev>>
  /\ UNCHANGED <<embedVars, extractVars, macroVars, postVars, cellVars, statsVars, listenerVars>>

NextTable == NormalizeTable \/ RenderTable

SpecTable == InitTable /\ [][NextTable]_vars

\* ------------------------------------------------------------------------
\* Specification of the image embedder
\* ------------------------------------------------------------------------
InitEmbed ==
  \* the src an image can have once cleanupImages has run
  LET SourceSrcs(k) == { Src("http", k, ""), Src("data", k, "orig"), NoSrc }
  IN
  /\ \E n \in 0..NumImages : \E srcs \in [1..n -> {"http", "data", "none"}] :
       /\ imgs0 = [k \in 1..n |-> CHOOSE s \in SourceSrcs(k) : s.scheme = srcs[k]]
       /\ imgs = [k \in 1..n |-> [id |-> k, src |-> imgs0[k]]]
       /\ task = [k \in 1..n |-> "idle"]
       /\ fetchTimer = [k \in 1..n |-> FALSE]
       /\ canvasTimer = [k \in 1..n |-> FALSE]
       /\ fetches = [k \in 1..n |-> 0]
       /\ canvases = [k \in 1..n |-> 0]
  /\ epc = "idle"
  /\ loopI = 1
  /\ response = NoResponse
  /\ TableIdle /\ ExtractIdle /\ MacroIdle /\ PostIdle /\ CellIdle /\ StatsIdle /\ ListenerIdle

TaskStep(k) ==
  \/ \E ok \in BOOLEAN : FetchResponse(k, ok)
  \/ FetchError(k)
  \/ FetchTimeout(k)
  \/ \E kind \in {"image", "notimage", "toolarge"} : BlobRead(k, kind)
  \/ BlobError(k)
  \/ \E ok \in BOOLEAN : EncodeDone(k, ok)
  \/ \E tainted \in BOOLEAN : CanvasLoad(k, tainted)
  \/ CanvasError(k)
  \/ CanvasTimeout(k)

NextEmbed ==
  \/ \E embedImages \in BOOLEAN, contentFound \in BOOLEAN : ExtractRequest(embedImages, contentFound)
  \/ BatchSettled
  \/ \E k \in 1..Len(imgs) : TaskStep(k)

SpecEmbed == InitEmbed /\ [][NextEmbed]_vars

\* the timers fire, the script continues and the FileReader, which reads a
\* blob held in memory, finishes; the server owes nothing
FairEmbed ==
  /\ WF_vars(BatchSettled)
  /\ \A k \in 1..NumImages :
       /\ WF_vars(FetchTimeout(k))
       /\ WF_vars(CanvasTimeout(k))
       /\ WF_vars(\E ok \in BOOLEAN : EncodeDone(k, ok))

FairSpecEmbed == InitEmbed /\ [][NextEmbed]_vars /\ FairEmbed

\* ------------------------------------------------------------------------
\* Specification of the extraction of a page
\* ------------------------------------------------------------------------
InitExtract ==
  LET Absent == [present |-> FALSE, kids |-> <<>>]
  IN
  /\ \E els \in SUBSET Selectors :
       /\ Cardinality(els) <= MaxElements
       /\ \E c \in [els -> Contents] :
            page = [s \in Selectors |-> IF s \in els THEN [present |-> TRUE, kids |-> c[s]] ELSE Absent]
  /\ heap = HeapOf(page)
  /\ contentEl = NoElement
  /\ clone = NoElement
  /\ message = NoMessage
  /\ reply = NoReply
  /\ statusLine = Status("success", "Confluence page detected (Cloud). Ready to convert.")
  /\ markdownContent = <<>>
  /\ xpc = "idle"
  /\ TableIdle /\ EmbedIdle /\ MacroIdle /\ PostIdle /\ CellIdle /\ StatsIdle /\ ListenerIdle

NextExtract ==
  \/ \E embedImages \in BOOLEAN : HandleConvert(embedImages)
  \/ ExtractPage
  \/ \E k \in DOMAIN heap, ok \in BOOLEAN : EmbedSettle(k, ok)
  \/ EmbedReturn
  \/ HandleResponse

SpecExtract == InitExtract /\ [][NextExtract]_vars

\* ------------------------------------------------------------------------
\* Specification of preprocessContent and td.turndown over one element
\* ------------------------------------------------------------------------
InitMacro ==
  /\ el \in SourceElements
  /\ pel = el
  /\ out = <<>>
  /\ mpc = "source"
  /\ pass = "none"
  /\ again = <<>>
  /\ TableIdle /\ EmbedIdle /\ ExtractIdle /\ PostIdle /\ CellIdle /\ StatsIdle /\ ListenerIdle

\* preprocessContent(clone), for the element
PreprocessElement ==
  /\ mpc = "source"
  /\ pel' = preprocessElement(el)
  /\ mpc' = "preprocessed"
  /\ UNCHANGED <<el, out, pass, again>>
  /\ UNCHANGED <<tableVars, embedVars, extractVars, postVars, cellVars, statsVars, listenerVars>>

\* td.turndown(html), for the element
RenderElement ==
  /\ mpc = "preprocessed"
  /\ out' = turndown(pel)
  /\ mpc' = "rendered"
  /\ UNCHANGED <<el, pel, pass, again>>
  /\ UNCHANGED <<tableVars, embedVars, extractVars, postVars, cellVars, statsVars, listenerVars>>

\* one pass of preprocessContent, applied to the element alone
ApplyPass(name) ==
  /\ mpc = "source"
  /\ pel' = subPass(name, el)
  /\ pass' = name
  /\ mpc' = "passed"
  /\ UNCHANGED <<el, out, again>>
  /\ UNCHANGED <<tableVars, embedVars, extractVars, postVars, cellVars, statsVars, listenerVars>>

\* the same pass, applied to what it left
ApplyPassAgain ==
  /\ mpc = "passed"
  /\ again' = subPass(pass, pel)
  /\ mpc' = "repeated"
  /\ UNCHANGED <<el, pel, out, pass>>
  /\ UNCHANGED <<tableVars, embedVars, extractVars, postVars, cellVars, statsVars, listenerVars>>

NextMacro ==
  \/ PreprocessElement
  \/ RenderElement
  \/ \E name \in SubPasses : ApplyPass(name)
  \/ ApplyPassAgain

SpecMacro == InitMacro /\ [][NextMacro]_vars

\* ------------------------------------------------------------------------
\* Specification of postProcess
\* ------------------------------------------------------------------------
InitPost ==
  \* the pieces a rendered text is made of
  LET Pieces ==
        { <<"LF">>, <<"SP">>, <<"a">>, <<"TAG">>, <<"BQ", "D", "BQ">>, <<"BQ", "TAG", "BQ">>,
              <<"|", "a", "|">> }
  IN
  /\ \E n \in 0..MaxPieces : \E pieces \in [1..n -> Pieces] : raw = Flatten(pieces)
  /\ processed = <<>>
  /\ order = <<>>
  /\ ppc = "raw"
  /\ TableIdle /\ EmbedIdle /\ ExtractIdle /\ MacroIdle /\ CellIdle /\ StatsIdle /\ ListenerIdle

NextPost ==
  \/ PostProcess
  \/ \E o \in Reorderings : PostProcessReordered(o)

SpecPost == InitPost /\ [][NextPost]_vars

\* ------------------------------------------------------------------------
\* Specification of cleanCellContent over one cell
\* ------------------------------------------------------------------------
InitCell ==
  LET Texts == { <<"a">>, <<"a", "LF", "a">>, <<"a", "SP", "SP", "a">> }
      Leaves == { TextNode(t) : t \in Texts }
      Inner == Leaves \cup { Element("p", <<TextNode(<<"a">>)>>) }
      Nodes == Leaves \cup { Element("br", <<>>) }
                 \cup { Element(k, <<n>>) : k \in {"p", "span"}, n \in Inner }
      \* the parser never leaves two text nodes side by side
      Parsed(kids) ==
        \A i \in 1..(Len(kids) - 1) : ~(kids[i].kind = "#text" /\ kids[i + 1].kind = "#text")
  IN
  /\ \E n \in 0..MaxKids : \E kids \in [1..n -> Nodes] : \E sized \in BOOLEAN :
       /\ Parsed(kids)
       /\ cellSrc = [sized |-> sized, kids |-> kids]
  /\ cellOut = <<>>
  /\ cpc = "source"
  /\ TableIdle /\ EmbedIdle /\ ExtractIdle /\ MacroIdle /\ PostIdle /\ StatsIdle /\ ListenerIdle

NextCell == CleanCell

SpecCell == InitCell /\ [][NextCell]_vars

\* ------------------------------------------------------------------------
\* Specification of the analytics store
\* ------------------------------------------------------------------------
InitStats ==
  \* the data after one conversion of a cloud page on each of n days, the
  \* last of them today; nothing was stored yet when n = 0
  LET History(n) ==
        [createDefault(1) EXCEPT
           !.lastActiveAt = IF n = 0 THEN 1 ELSE n,
           !.totalConversions = n,
           !.pageTypes = IF n = 0 THEN <<>> ELSE [k \in {"cloud"} |-> n],
           !.dailyStats = [k \in 1..n |-> [conversions |-> 1, copies |-> 0, downloads |-> 0]]]
  IN
  /\ \E n \in {0, 1, MAX_DAILY_ENTRIES - 1, MAX_DAILY_ENTRIES} :
       /\ store0 = History(n)
       /\ store = IF n = 0 THEN <<>> ELSE History(n)
       /\ day = IF n = 0 THEN 1 ELSE n
  /\ calls = <<>>
  /\ queue = <<>>
  /\ TableIdle /\ EmbedIdle /\ ExtractIdle /\ MacroIdle /\ PostIdle /\ CellIdle /\ ListenerIdle

NextStats ==
  \/ \E pageType \in {"cloud", ""} :
       \E options \in {{}, {"frontmatter", "title", "embedImages"}} :
         Track("trackConversion", pageType, options)
  \/ \E kind \in {"trackCopy", "trackDownload", "trackPopupOpen"} : Track(kind, "", {})
  \/ StorageServes
  \/ DayPasses

SpecStats == InitStats /\ [][NextStats]_vars

\* ------------------------------------------------------------------------
\* Specification of the message listener
\* ------------------------------------------------------------------------
InitListener ==
  /\ loaded = FALSE
  /\ listeners = 0
  /\ injections = 0
  /\ msgs = <<>>
  /\ TableIdle /\ EmbedIdle /\ ExtractIdle /\ MacroIdle /\ PostIdle /\ CellIdle /\ StatsIdle

NextListener ==
  \/ InjectContentScript
  \/ ensureContentScript
  \/ \E embed \in BOOLEAN : SendExtract(embed)
  \/ \E i \in 1..MaxMessages : \E ok \in BOOLEAN : ExtractSettles(i, ok)

SpecListener == InitListener /\ [][NextListener]_vars

\* an extraction that embeds no image awaits nothing but its own steps and
\* settles; one that embeds images awaits response.blob(), which nothing
\* bounds once the timer is cleared (fetchImageAsDataUri)
FairListener ==
  \A i \in 1..MaxMessages :
    WF_vars(\E ok \in BOOLEAN : ExtractSettles(i, ok) /\ ~msgs[i].embedImages)

FairSpecListener == SpecListener /\ FairListener

\* ------------------------------------------------------------------------
\* Properties of the table pipeline
\* ------------------------------------------------------------------------
AllCells(t) == Flatten(TableRows(t))

HasCell(t) == Len(AllCells(t)) > 0

\* the maximum over the rows of the sum of the colspans of their cells
ColumnsOf(t) ==
  LET rows == TableRows(t)
      width(row) == SumSeq([j \in 1..Len(row) |-> IF row[j].colspan = 0 THEN 1 ELSE row[j].colspan])
  IN  MaxOf({ width(rows[r]) : r \in 1..Len(rows) })

Normalized == tpc \in {"normalized", "renormalized", "rendered"}

\* C1: after normalizeTable every row of the table has exactly maxColumns
\* cells (the maximum over the source rows of the sum of the colspans) and
\* no cell carries a colspan or a rowspan attribute.
C1_RowsHaveMaxColumns ==
  Normalized =>
    /\ \A r \in 1..Len(TableRows(table)) : Len(TableRows(table)[r]) = ColumnsOf(src)
    /\ \A i \in 1..Len(AllCells(table)) :
         AllCells(table)[i].colspan = 0 /\ AllCells(table)[i].rowspan = 0

\* a ragged source table with both a colspan and a rowspan has been normalized
C1_Witness ==
  /\ tpc = "normalized"
  /\ \E i \in 1..Len(AllCells(src)) : AllCells(src)[i].colspan > 1
  /\ \E i \in 1..Len(AllCells(src)) : AllCells(src)[i].rowspan > 1
  /\ \E r1, r2 \in 1..Len(TableRows(src)) : Len(TableRows(src)[r1]) # Len(TableRows(src)[r2])
  /\ HasSection(src, "THEAD")

\* C2: after normalizeTable every table with a cell has a header row: its
\* first row holds only th cells and sits inside a thead.
C2_HeaderRowExists ==
  (tpc = "normalized" /\ HasCell(src)) =>
    /\ \A j \in 1..Len(TableRows(table)[1]) : TableRows(table)[1][j].tag = "TH"
    /\ table[FirstRowSection(table)].kind = "THEAD"

IsSeparatorLine(l) ==
  LET marks == SelectSeq(l, LAMBDA tok : tok \notin {"|", " "})
  IN  Len(marks) > 0 /\ \A i \in 1..Len(marks) : marks[i] \in {"---", ":--", "--:", ":-:"}

\* C3: the rendered Markdown of a normalized table holds exactly one
\* alignment-separator line, directly beneath the line of the header row.
C3_OneSeparatorLine ==
  (tpc = "rendered" /\ HasCell(src)) =>
    /\ Len(md) >= 2
    /\ { i \in 1..Len(md) : IsSeparatorLine(md[i]) } = {2}

\* C4: a second run of normalizeTable changes nothing in the table.
C4_Idempotent == tpc = "renormalized" => table = prev

\* ------------------------------------------------------------------------
\* Properties of the image embedder
\* ------------------------------------------------------------------------
Images == 1..Len(imgs)

Started(k) == task[k] # "idle"

Pending(k) == task[k] \in {"fetching", "reading", "encoding", "canvas"}

Over(k) == task[k] \in {"skipped", "embedded", "kept", "failed"}

BatchOf(k) == (k - 1) \div CONCURRENCY

\* C5: when the fetch and the canvas fallback both fail, the src of the
\* image is what it was before embedding, not a data URI, and the extract
\* request is answered with success and the whole document.
C5_FailureKeepsSrc ==
  \A k \in Images :
    task[k] = "failed" =>
      /\ imgs[k].src = imgs0[k]
      /\ imgs[k].src.scheme # "data"
      /\ epc = "responded" =>
           /\ response.sent /\ response.success
           /\ Len(response.html) = Len(imgs0)
           /\ response.html[k] = imgs0[k]

\* the request has been answered, one image failed, another was embedded
C5_Witness ==
  /\ epc = "responded"
  /\ \E k \in Images : task[k] = "failed" /\ canvases[k] = 1
  /\ \E k \in Images : task[k] = "embedded"

\* C6: never more than 4 image tasks are in flight, and no task of a later
\* batch has started while a task of an earlier batch has not settled.
C6_BoundedBatches ==
  /\ Cardinality({ k \in Images : Pending(k) }) <= 4
  /\ \A j, k \in Images : (BatchOf(j) < BatchOf(k) /\ Started(k)) => Over(j)

\* a task of the second batch is in flight
C6_Witness == \E k \in Images : BatchOf(k) = 1 /\ Pending(k)

\* C7: the failure or timeout of the fetch or fallback of one image leaves
\* the task of every other image as it is, and once the request is answered
\* after embedding every image has been attempted.
C7_FailureIsLocal ==
  /\ [](\A j, k \in Images : (epc = "responded" /\ Started(j)) => Over(k))
  /\ [][\A k \in Images :
          (task'[k] # task[k] /\ task'[k] \in {"canvas", "failed"}) =>
            \A j \in Images \ {k} : task'[j] = task[j] /\ imgs'[j] = imgs[j]]_vars

\* the first image failed, its neighbour was embedded, the next batch runs
C7_Witness ==
  /\ Len(imgs) > CONCURRENCY
  /\ task[1] = "failed" /\ task[2] = "embedded"
  /\ Started(CONCURRENCY + 1)

\* the src the outcome of its own task gives image k
OwnSrc(k) ==
  IF task[k] = "embedded"
  THEN Src("data", imgs0[k].body, IF canvases[k] = 0 THEN "blob" ELSE "canvas")
  ELSE imgs0[k]

\* C8: whatever the order of completion, the src of each image is given by
\* the outcome of its own task, and the images are serialized in document
\* order.
C8_OrderIndependent ==
  /\ \A k \in Images : imgs[k].id = k /\ imgs[k].src = OwnSrc(k)
  /\ (response.sent /\ response.success) =>
       response.html = [k \in Images |-> OwnSrc(k)]

\* an image was embedded while the image before it was still being fetched
C8_Witness == \E k \in Images : k > 1 /\ task[k] = "embedded" /\ task[k - 1] = "fetching"

\* C9: every embedding attempt settles and the extract request is answered,
\* even if the server never finishes responding.
C9_EmbeddingCompletes == (epc = "embedding") ~> (epc = "responded")

\* C10: per image at most one fetch and at most one canvas attempt, the
\* canvas attempt begins when the fetch attempt has failed, and nothing is
\* attempted after the canvas attempt has failed.
C10_SingleAttempts ==
  /\ [](\A k \in Images :
          /\ fetches[k] <= 1 /\ canvases[k] <= 1
          /\ canvases[k] = 1 => (fetches[k] = 1 /\ task[k] \in {"canvas", "embedded", "failed"})
          /\ task[k] \in {"fetching", "reading", "encoding", "kept"} => canvases[k] = 0)
  /\ [][\A k \in Images :
          /\ canvases'[k] # canvases[k] => (task[k] \in {"fetching", "reading", "encoding"} /\ task'[k] = "canvas")
          /\ task[k] = "failed" =>
               (task'[k] = "failed" /\ fetches'[k] = fetches[k] /\ canvases'[k] = canvases[k])]_vars

\* an image for which both attempts were made and failed
C10_Witness == \E k \in Images : task[k] = "failed" /\ fetches[k] = 1 /\ canvases[k] = 1

\* ------------------------------------------------------------------------
\* Properties of the extraction of a page
\* ------------------------------------------------------------------------
\* the length of the serialized children without the whitespace at both ends
RECURSIVE TrimmedLength(_)
TrimmedLength(nodes) ==
  IF nodes = <<>> THEN 0
  ELSE IF Head(nodes) = Space THEN TrimmedLength(Tail(nodes))
  ELSE IF nodes[Len(nodes)] = Space THEN TrimmedLength(SubSeq(nodes, 1, Len(nodes) - 1))
  ELSE SumSeq([j \in 1..Len(nodes) |-> nodes[j].chars])

\* the selectors whose element has more than n characters of content
Longer(n) == { s \in Selectors : page[s].present /\ TrimmedLength(page[s].kids) > n }

FirstOf(S, s) == s \in S /\ \A t \in S : s <= t

Extracted == xpc \in {"embedding", "replied", "done"}

\* C11: the content element is the element of the first selector with more
\* than 100 characters of trimmed content, else of the first selector with
\* content; when there is none the reply is {success: false, error: the
\* message of the error}, the popup shows that message and holds no Markdown.
C11_ContentRoot ==
  Extracted =>
    /\ Longer(MinContentLength) # {} => FirstOf(Longer(MinContentLength), contentEl)
    /\ Longer(MinContentLength) = {} /\ Longer(0) # {} => FirstOf(Longer(0), contentEl)
    /\ Longer(0) = {} =>
         /\ contentEl = NoElement
         /\ clone = NoElement
         /\ reply = [success |-> FALSE, error |-> NotLocated, html |-> <<>>]
         /\ markdownContent = <<>>
         /\ xpc = "done" => statusLine = Status("error", NotLocated)

\* the page has elements for the selectors, all of them blank, and the
\* conversion has ended with the error
C11_Witness ==
  /\ xpc = "done"
  /\ \E s \in Selectors : page[s].present
  /\ contentEl = NoElement
  /\ statusLine = Status("error", NotLocated)

\* the nodes of the subtree of an element
Subtree(h, id) == {id} \cup Range(h[id].kids)

\* C12: the nodes of the live document keep their attributes, their
\* children and their place, and the clone shares no node with them.
C12_LivePageUntouched ==
  /\ \A id \in LiveIds(page) : id \in DOMAIN heap /\ heap[id] = HeapOf(page)[id]
  /\ clone # NoElement => Subtree(heap, clone) \cap LiveIds(page) = {}

\* an extraction with embedImages has removed, replaced and rewritten
\* nodes of the clone
C12_Witness ==
  /\ xpc = "done"
  /\ message.embedImages
  /\ clone # NoElement
  /\ \E k \in ImagesOf(heap, clone) : heap[k].state = "embedded"
  /\ \E k \in Range(heap[clone].kids) : heap[k].kind = "blockquote"
  /\ Len(heap[clone].kids) < Len(heap[contentEl].kids)

\* ------------------------------------------------------------------------
\* Properties of the requests of an extraction
\* ------------------------------------------------------------------------
\* C13: an extraction issues no network request: no fetch() is called and
\* no image is loaded for the canvas, whatever the options of the request.
C13_NoNetworkRequest == \A k \in Images : fetches[k] = 0 /\ canvases[k] = 0

\* ------------------------------------------------------------------------
\* Properties of preprocessContent over one element
\* ------------------------------------------------------------------------
Preprocessed == mpc \in {"preprocessed", "rendered"}

\* C14: an image whose src is a data URI keeps that src through
\* cleanupImages, whatever its other source attributes, and the embedder
\* does not fetch it.
C14_DataUriKept ==
  Preprocessed /\ el.kind = "img" /\ el.src.scheme = "data" =>
    pel.src = el.src /\ SkipsEmbedding(pel.src)

\* the candidates resolveBestImageUrl passes over: absent, blob: or placeholder
PassedOver(u) == u.scheme \in {"none", "blob", "placeholder"}

\* C14 as amended: an image whose src is a data URI, and whose
\* data-image-src, data-media-src and data-src are each absent, a blob: URL
\* or a placeholder URL, keeps that src through cleanupImages and the
\* embedder does not fetch it.
C14_DataUriKeptWhenFirst ==
  Preprocessed /\ el.kind = "img" /\ el.src.scheme = "data"
    /\ PassedOver(el.dataImageSrc) /\ PassedOver(el.dataMediaSrc) /\ PassedOver(el.dataSrc) =>
    pel.src = el.src /\ SkipsEmbedding(pel.src)

\* a data URI src that was reached after a blob: data-src, on an image
\* with a resource id
C14_Witness ==
  /\ Preprocessed /\ el.kind = "img"
  /\ el.src.scheme = "data" /\ el.dataSrc.scheme = "blob" /\ el.resourceId
  /\ PassedOver(el.dataImageSrc) /\ PassedOver(el.dataMediaSrc)
  /\ pel.src = el.src

Rendered == mpc = "rendered"

\* the element of scenario A
ScenarioA ==
  PanelEl(FALSE, "confluence-information-macro-warning", "none", FALSE, "none", "Be careful")

\* C15: the div of class confluence-information-macro-warning holding
\* "Be careful" is rendered as a blockquote that begins with the line
\* **(warning sign) Warning:** and goes on with Be careful.
C15_ScenarioA ==
  Rendered /\ el.kind = "panel" /\ el = ScenarioA =>
    /\ Len(out) > 1
    /\ out[1] = "> **U+26A0 Warning:**"
    /\ out[Len(out)] = "> Be careful"

\* an element convertPanels recognises: of the class table kind, with a
\* panel-type attribute, or a colored panel
RecognisedPanel(e) == e.kind = "panel" /\ (e.macro \/ e.panelType # "none" \/ e.panel)

\* the label of the first classifier that matches, "Note" when none does
ClassifiedLabel(e) ==
  IF e.typeClass # "" THEN panelClasses(e.typeClass)
  ELSE IF e.panelType \notin {"none", ""} THEN Capitalize(e.panelType)
  ELSE IF e.panel /\ e.header # "none" THEN e.header
  ELSE "Note"

\* C16: every panel of the three kinds is rendered as a blockquote whose
\* first line is **{emoji} {Label}:**, the label being that of the first
\* classifier that matches (class table, panel-type attribute, header of a
\* colored panel), "Note" without one, and the emoji that of the label.
C16_PanelHeading ==
  Rendered /\ RecognisedPanel(el) =>
    /\ Len(out) > 0
    /\ out[1] = "> **" \o getEmojiForPanel(ClassifiedLabel(el)) \o " " \o ClassifiedLabel(el) \o ":**"

\* ------------------------------------------------------------------------
\* Properties of the header synthesis
\* ------------------------------------------------------------------------
\* the table ensureHeaderRow is handed by normalizeTable
BeforeHeaderRow == ensureThead(promoteHeaderCells(expandMergedCells(src)))

\* a first-row cell whose text is the label of its column
Qualifies(c) == c.text # "" /\ Len(c.text) < LabelMaxLen /\ ~c.media

\* the header row the claim describes for a first row
SyntheticHeader(firstRow) ==
  [i \in 1..Len(firstRow) |->
     NewCell("TH", IF Qualifies(firstRow[i]) THEN firstRow[i].text ELSE "Column " \o ToString(i))]

RowsCleaned(rows) == [r \in 1..Len(rows) |-> [j \in 1..Len(rows[r]) |-> cleanCell(rows[r][j])]]

\* the first row of the table handed to ensureHeaderRow has cells, none a th
NeedsHeader ==
  /\ Len(TableRows(BeforeHeaderRow)) > 0
  /\ Len(TableRows(BeforeHeaderRow)[1]) > 0
  /\ \A j \in 1..Len(TableRows(BeforeHeaderRow)[1]) : TableRows(BeforeHeaderRow)[1][j].tag # "TH"

\* C17: when the first row has no header cell, the table gets a header row
\* of one th per column, labelled with the text of the first-row cell when
\* that text qualifies and with Column N otherwise; the first row is removed
\* when every cell qualified, and stays as a data row beneath the header
\* row otherwise.
C17_HeaderSynthesis ==
  (tpc = "normalized" /\ NeedsHeader) =>
    LET before == TableRows(BeforeHeaderRow)
        header == SyntheticHeader(before[1])
        kept == IF \A j \in 1..Len(before[1]) : Qualifies(before[1][j]) THEN Tail(before) ELSE before
    IN  /\ TableRows(table) = <<header>> \o RowsCleaned(kept)
        /\ RowsOfSections(SectionsOf(table, {"THEAD"})) = <<header>>

\* the task items of a task list, nested ones included, in document order
AllTaskItems == TaskItemsOf(el.items)

\* an item with a checked input, a complete-status element or the state DONE
MarkedDone(item) ==
  \/ \E t \in {item} \cup Range(item.nested) : t.input = "checked" \/ t.complete
  \/ item.state = "DONE"

\* C18: every task item becomes one list item, checked exactly when it has
\* a checked input, a complete-status class or the state DONE, without its
\* checkbox controls, and is rendered as the one line - [x] text or
\* - [ ] text.
C18_TaskItems ==
  Rendered /\ el.kind = "tasklist" =>
    /\ Len(pel.items) = Len(AllTaskItems)
    /\ \A i \in 1..Len(pel.items) :
         /\ pel.items[i].task = "checked" <=> MarkedDone(AllTaskItems[i])
         /\ pel.items[i].content.input = "none" /\ ~pel.items[i].content.complete
    /\ out = [i \in 1..Len(AllTaskItems) |->
                (IF MarkedDone(AllTaskItems[i]) THEN "- [x] " ELSE "- [ ] ") \o AllTaskItems[i].text]

\* the first of the brush parameter, the class pattern and data-language
FirstHit(e) ==
  IF e.brush # "" THEN Word(e.brush) ELSE IF e.cls # "" THEN Word(e.cls) ELSE e.dataLanguage

\* the alias of the lower-cased token, the lower-cased token without one
Aliased(token) ==
  IF LanguageMap(toLowerCase(token)) # "" THEN LanguageMap(toLowerCase(token)) ELSE toLowerCase(token)

\* C19: a code block of either editor becomes a pre whose code has the
\* class language-X, X being the first hit of brush parameter, class
\* pattern and data-language, mapped through the alias table and
\* lower-cased, and has no class when there is no hit.
C19_CodeLanguage ==
  Preprocessed /\ el.kind = "code" /\ (el.editor = "legacy" => el.hasPre) =>
    pel.kind = "pre" /\ pel.language = Aliased(FirstHit(el))

\* C21: each pass of preprocessContent is idempotent: applied to what it
\* left, it changes nothing, also when macros of its kind are nested.
C21_PassesIdempotent == mpc = "repeated" => again = pel

\* ------------------------------------------------------------------------
\* Properties of postProcess
\* ------------------------------------------------------------------------
\* C20: the blank-line collapse, the trailing-whitespace strip, the badge
\* space collapse and the tag strip give, in whatever order they are
\* applied, the text postProcess returns.
C20_OrderIndependent == ppc = "processed" => processed = postProcess(raw)

\* ------------------------------------------------------------------------
\* Properties of the span expansion
\* ------------------------------------------------------------------------
\* the rows of the source table after expandMergedCells
ExpandedRows == TableRows(expandMergedCells(src))

\* the positions <<r, c>> of the expanded rows e
Positions(e) == { <<r, c>> : r \in 1..Len(e), c \in 1..getMaxColumns(src) }

\* the positions that hold a cell of the source
Origins(e) == { p \in Positions(e) : e[p[1]][p[2]].id # 0 }

\* the cell of row o[1] of the source rows that the origin o holds
SourceCell(rows, e, o) ==
  rows[o[1]][CHOOSE j \in 1..Len(rows[o[1]]) : rows[o[1]][j].id = e[o[1]][o[2]].id]

\* the span of the cell at origin o covers p, another position
Covers(rows, e, o, p) ==
  /\ p # o
  /\ p[1] \in o[1]..(o[1] + ParseSpan(SourceCell(rows, e, o).rowspan) - 1)
  /\ p[2] \in o[2]..(o[2] + ParseSpan(SourceCell(rows, e, o).colspan) - 1)

\* the origins whose span covers p
Covering(rows, e, p) == { o \in Origins(e) : Covers(rows, e, o, p) }

\* the one of the origins os placed last
Last(os) == CHOOSE o \in os : \A q \in os : q[1] < o[1] \/ (q[1] = o[1] /\ q[2] <= o[2])

EmptyOfKind(c, tag) == c.text = "" /\ c.id = 0 /\ c.tag = tag

\* what holds of the origins and of the positions no span covers
OriginsAndGaps(rows, e) ==
  /\ \A o \in Origins(e) :
       /\ \E j \in 1..Len(rows[o[1]]) : rows[o[1]][j].id = e[o[1]][o[2]].id
       /\ e[o[1]][o[2]] = [SourceCell(rows, e, o) EXCEPT !.colspan = 0, !.rowspan = 0]
  /\ \A p \in Positions(e) \ Origins(e) :
       Covering(rows, e, p) = {} => e[p[1]][p[2]] = NewCell("TD", "")

\* a row made of one colspan=2 cell and one plain cell, in a 3-column table
\* where nothing from above reaches the row, has 3 cells, the second an
\* empty duplicate of the first
ThreeColumnExample(rows, e) ==
  \A r \in 1..Len(rows) :
    (/\ getMaxColumns(src) = 3
     /\ Len(rows[r]) = 2 /\ rows[r][1].colspan = 2 /\ rows[r][1].rowspan = 0
     /\ rows[r][2].colspan = 0 /\ rows[r][2].rowspan = 0
     /\ \A q \in 1..(r - 1) : \A j \in 1..Len(rows[q]) : rows[q][j].rowspan = 0)
    => /\ Len(e[r]) = 3
       /\ e[r][1].id = rows[r][1].id
       /\ EmptyOfKind(e[r][2], rows[r][1].tag)
       /\ e[r][3].id = rows[r][2].id

\* C24: after expandMergedCells the origin position of each span holds the
\* original cell, every other position the span covers holds an empty cell
\* of the tag kind of the origin, every position no span covers holds an
\* empty td, and the 3-column example gives a row of 3 cells.
C24_SpanExpansion ==
  tpc = "normalized" =>
    LET rows == TableRows(src)
        e == ExpandedRows
    IN  /\ OriginsAndGaps(rows, e)
        /\ \A o \in Origins(e) : \A p \in Positions(e) :
             Covers(rows, e, o, p) => EmptyOfKind(e[p[1]][p[2]], e[o[1]][o[2]].tag)
        /\ ThreeColumnExample(rows, e)

\* C24 as it holds: a position that the spans of several cells cover holds
\* an empty cell of the tag kind of the cell placed last.
C24_SpanExpansionLastWins ==
  tpc = "normalized" =>
    LET rows == TableRows(src)
        e == ExpandedRows
    IN  /\ OriginsAndGaps(rows, e)
        /\ \A p \in Positions(e) :
             LET os == Covering(rows, e, p)
             IN  os # {} => EmptyOfKind(e[p[1]][p[2]], e[Last(os)[1]][Last(os)[2]].tag)
        /\ ThreeColumnExample(rows, e)

\* the 3-column example has been expanded, as has a th spanning two rows
C24_Witness ==
  /\ tpc = "normalized"
  /\ getMaxColumns(src) = 3
  /\ LET rows == TableRows(src)
         e == ExpandedRows
     IN  /\ \E r \in 1..Len(rows) :
              /\ Len(rows[r]) = 2
              /\ rows[r][1].colspan = 2
              /\ EmptyOfKind(e[r][2], rows[r][1].tag)
         /\ \E o \in Origins(e) : \E p \in Positions(e) :
              e[o[1]][o[2]].tag = "TH" /\ Covers(rows, e, o, p)

\* ------------------------------------------------------------------------
\* Properties of the rendered table
\* ------------------------------------------------------------------------
\* no row of the table is rendered as a heading row
NoHeadingRow ==
  \A s \in 1..Len(table) : \A k \in 1..Len(table[s].rows) : ~isHeadingRow(table, s, k)

\* the rows of the table that have a cell, in the order they are rendered
RenderedRows == SelectSeq(TableRows(table), LAMBDA row : Len(row) > 0)

\* the number of tokens of l that are tok
Count(l, tok) == Cardinality({ i \in 1..Len(l) : l[i] = tok })

\* C22: a table rendered without a heading row gets a separator as its
\* second line, with as many --- markers as its first rendered row has
\* cells; no table that renders to a line is emitted without a separator.
C22_SeparatorSynthesised ==
  (tpc = "rendered" /\ md # <<>>) =>
    /\ \E i \in 1..Len(md) : IsSeparatorLine(md[i])
    /\ NoHeadingRow =>
         /\ Len(md) >= 2
         /\ IsSeparatorLine(md[2])
         /\ Count(md[2], "---") = Len(RenderedRows[1])

\* C23: every line of a rendered table starts and ends with a pipe, a pipe
\* of the content of a cell is escaped, only the first cell of a row opens
\* the row, and all lines hold the same number of unescaped pipes.
C23_PipeTable ==
  tpc = "rendered" =>
    /\ \A i \in 1..Len(md) : md[i][1] = "|" /\ md[i][Len(md[i])] = "|"
    /\ \A r \in 1..Len(RenderedRows) : \A j \in 1..Len(RenderedRows[r]) :
         "|" \notin Range(CellContent(RenderedRows[r][j]))
    /\ \A i \in 1..Len(md) : ~IsSeparatorLine(md[i]) =>
         \E r \in 1..Len(RenderedRows) : Count(md[i], "|") = Len(RenderedRows[r]) + 1
    /\ \A i, k \in 1..Len(md) : Count(md[i], "|") = Count(md[k], "|")

\* C27: span expansion loses no cell: every cell of the source table is
\* still in its row after expandMergedCells, with its content.
C27_NoCellLost ==
  Normalized =>
    \A r \in 1..Len(TableRows(src)) : \A j \in 1..Len(TableRows(src)[r]) :
      \E c \in 1..Len(ExpandedRows[r]) :
        /\ ExpandedRows[r][c].id = TableRows(src)[r][j].id
        /\ ExpandedRows[r][c].text = TableRows(src)[r][j].text

\* the contents of the inline code spans of t, from one backquote to the next
RECURSIVE CodeSpans(_)
CodeSpans(t) ==
  IF t = <<>> THEN <<>>
  ELSE IF Head(t) # "BQ" THEN CodeSpans(Tail(t))
  ELSE LET n == RunLen(Tail(t), {"LF", "SP", "a", "D", "|", "TAG"})
       IN  IF n + 1 < Len(t)
           THEN <<SubSeq(t, 2, n + 1)>> \o CodeSpans(Drop(t, n + 2))
           ELSE <<>>

\* t without its whitespace and its tags
Solid(t) == SelectSeq(t, LAMBDA c : c \notin {"LF", "SP", "TAG"})

\* C30: postProcess leaves the content of code unchanged: the characters
\* inside the code spans are the same after it as before, and only
\* whitespace and table tags are altered.
C30_CodeUnchanged ==
  (ppc = "processed" /\ order = PostProcessOrder) =>
    /\ CodeSpans(processed) = CodeSpans(raw)
    /\ Solid(processed) = Solid(raw)

\* ------------------------------------------------------------------------
\* Properties of cleanCellContent over one cell
\* ------------------------------------------------------------------------
\* C25: after cleanCellContent the cell holds no p or div, no text of the
\* cell, directly or inside an inline element, holds a newline or a run of
\* more than one whitespace character, a br is added only between two
\* successive blocks of a cell that had more than one (so one fewer than
\* it had blocks, at most), and the cell has no width or height left.
C25_SingleLineCells ==
  LET RECURSIVE Blocks(_)
      Blocks(kids) ==
        IF kids = <<>> THEN 0
        ELSE (IF Head(kids).kind = "p" THEN 1 ELSE 0) + Blocks(Head(kids).kids) + Blocks(Tail(kids))
      RECURSIVE Breaks(_)
      Breaks(kids) ==
        IF kids = <<>> THEN 0
        ELSE (IF Head(kids).kind = "br" THEN 1 ELSE 0) + Breaks(Head(kids).kids) + Breaks(Tail(kids))
      SingleLine(chars) ==
        /\ \A i \in 1..Len(chars) : chars[i] # "LF"
        /\ \A i \in 1..(Len(chars) - 1) : ~(chars[i] = "SP" /\ chars[i + 1] = "SP")
      RECURSIVE AllSingleLine(_)
      AllSingleLine(kids) ==
        \A i \in 1..Len(kids) :
          IF kids[i].kind = "#text" THEN SingleLine(kids[i].chars) ELSE AllSingleLine(kids[i].kids)
      Between(n) == IF n > 1 THEN n - 1 ELSE 0
  IN cpc = "cleaned" =>
       /\ Blocks(cellOut.kids) = 0
       /\ AllSingleLine(cellOut.kids)
       /\ Breaks(cellOut.kids) <= Breaks(cellSrc.kids) + Between(Blocks(cellSrc.kids))
       /\ ~cellOut.sized

\* ------------------------------------------------------------------------
\* Properties of the analytics store
\* ------------------------------------------------------------------------
\* C26: whatever track functions are called over whatever days, the stored
\* dailyStats never holds more than 90 day entries.
C26_DailyStatsBounded ==
  DOMAIN store # {} => Cardinality(DOMAIN store.dailyStats) <= MAX_DAILY_ENTRIES

\* C28: in every interleaving of the track calls, each stored total is the
\* total the store started with plus the number of completed calls of its
\* kind, and the pageTypes counts add up to totalConversions.
C28_NoLostUpdate ==
  LET Completed(kind) ==
        Cardinality({ i \in 1..Len(calls) : calls[i].kind = kind /\ calls[i].step = "done" })
      RECURSIVE Sum(_, _)
      Sum(f, keys) ==
        IF keys = {} THEN 0
        ELSE LET k == CHOOSE x \in keys : TRUE IN f[k] + Sum(f, keys \ {k})
      stored == IF DOMAIN store = {} THEN store0 ELSE store
  IN DOMAIN store0 # {} =>
       /\ stored.totalConversions = store0.totalConversions + Completed("trackConversion")
       /\ stored.totalCopies = store0.totalCopies + Completed("trackCopy")
       /\ stored.totalDownloads = store0.totalDownloads + Completed("trackDownload")
       /\ Sum(stored.pageTypes, DOMAIN stored.pageTypes) = stored.totalConversions

\* ------------------------------------------------------------------------
\* Properties of the message listener
\* ------------------------------------------------------------------------
\* at most one listener is registered, and no message gets a second response
OneListenerOneAnswer ==
  /\ listeners <= 1
  /\ \A i \in 1..Len(msgs) :
       /\ msgs[i].responses <= 1
       /\ msgs[i].action = "ping" => msgs[i].responses = 1
       /\ msgs[i].pending = 0 => msgs[i].responses = 1

\* C29: however many times the content script is injected the page has at
\* most one listener, and every ping and every extract message gets exactly
\* one response: never two, and in the end one.
C29_ExactlyOneResponse ==
  /\ []OneListenerOneAnswer
  /\ \A i \in 1..MaxMessages :
       [](Len(msgs) >= i => <>(Len(msgs) >= i /\ msgs[i].responses = 1))

====
